---- MODULE Spec2Model ----
(***************************************************************************)
(* Verification model of the derivation layer of lemr-meteo: the synthetic *)
(* METAR encoder (metar_generator.py), the flight-category classifier      *)
(* (metar_service.py), the fog-risk assessor (weather_service.py) and the  *)
(* convective-risk assessor (ai_service.py).                               *)
(*                                                                         *)
(* Representation of Python values:                                        *)
(*   - an optional value is None (the empty tuple) or Some(x) = <<x>>;     *)
(*   - a text is a sequence of one-character strings, so that formatting,  *)
(*     regular-expression search and int() parsing are real computations;  *)
(*   - temperatures are integers in thousandths of a degree Celsius, wind  *)
(*     speeds in tenths of km/h, pressures in tenths of hPa, visibilities  *)
(*     in metres (visibility_km * 1000); every enumerated input is a value *)
(*     on which the float arithmetic of the source is exact.               *)
(***************************************************************************)
EXTENDS Integers, Sequences, FiniteSets, TLC

VARIABLES
    pc,               \* position of the driver of the component under analysis
    leas_obs,         \* what the LEAS observation says (environment), or None
    metar_leas,       \* text returned by get_metar("LEAS"), or None
    sample,           \* arguments of generate_metar_lemr (environment)
    now_utc,          \* datetime.now(UTC) as a DDHHMM stamp (environment)
    generated,        \* value returned by generate_metar_lemr: None or Some(text)
    metar_lemr,       \* LEMR text handed to the classifier
    flight_cat_leas,  \* result of classify_flight_category(metar_leas), or None
    flight_cat_lemr,  \* result of classify_flight_category(metar_lemr), or None
    date_str,         \* target day of the fog assessment
    hourly_forecast,  \* hourly samples handed to _compute_fog_risk
    fog_risk,         \* result of _compute_fog_risk, or None before the call
    conv_in,          \* arguments of _detect_convective_risk
    conv_risk,        \* result of _detect_convective_risk, or None before the call
    regenerated,      \* value returned by a second call of generate_metar_lemr
    escaped,          \* components whose call let an exception escape
    runway_in,        \* wind and runway headings handed to the runway analysis
    runway_rec,       \* result of the runway analysis, or None before it
    clock,            \* time.time(), in seconds
    last_alert,       \* telegram_monitor._last_alert: source -> time of last alert
    alert_pc,         \* position of each thread inside send_alert
    alert_source,     \* source argument of each thread's current call
    alert_now,        \* local variable now of each thread's current call
    alert_calls,      \* number of calls each thread has started
    alert_ret,        \* value returned by each thread's last call, or None
    posted,           \* messages posted to Telegram, in order
    cycle,            \* number of the update cycle _current_cycle_id() names
    forced_fallback,  \* ai_service._FORCED_FALLBACK_CYCLE: model -> locked cycle
    casc_pc,          \* position of each thread inside the model cascade
    casc_idx,         \* index in the cascade of the model each thread is at
    casc_last,        \* last_exception of each thread's invocation, or None
    casc_ret,         \* outcome of each thread's last invocation, or None
    casc_started,     \* number of invocations started, all threads together
    events,           \* calls and skips of models, in order
    now_cycle,        \* number of the cycle _build_cycle_id(now) names
    cache,            \* web_app._CACHE
    req_pc,           \* position of each caller inside get_report_payload
    req_args,         \* arguments and locals of each caller's current call
    req_ret,          \* what each caller's last call saw, did and returned
    req_started,      \* number of calls of get_report_payload started
    regens,           \* background regeneration threads, in order of start
    weather_data,     \* what get_weather_forecast returned: None or the data
    report_payload    \* value returned by _generate_report_payload, or None

vars == <<pc, leas_obs, metar_leas, sample, now_utc, generated, metar_lemr,
          flight_cat_leas, flight_cat_lemr, date_str, hourly_forecast,
          fog_risk, conv_in, conv_risk, regenerated, escaped, runway_in,
          runway_rec, clock, last_alert, alert_pc, alert_source, alert_now,
          alert_calls, alert_ret, posted, cycle, forced_fallback, casc_pc,
          casc_idx, casc_last, casc_ret, casc_started, events, now_cycle,
          cache, req_pc, req_args, req_ret, req_started, regens, weather_data,
          report_payload>>

reportVars == <<leas_obs, metar_leas, sample, now_utc, generated, metar_lemr,
                flight_cat_leas, flight_cat_lemr, regenerated>>

runwayVars == <<runway_in, runway_rec>>

alertVars == <<clock, last_alert, alert_pc, alert_source, alert_now, alert_calls,
               alert_ret, posted>>

cascadeVars == <<cycle, forced_fallback, casc_pc, casc_idx, casc_last, casc_ret,
                 casc_started, events>>

cacheVars == <<now_cycle, cache, req_pc, req_args, req_ret, req_started, regens>>

payloadVars == <<weather_data, report_payload>>

fogVars == <<date_str, hourly_forecast, fog_risk>>

convVars == <<conv_in, conv_risk>>

----------------------------------------------------------------------------
(* Optional values                                                         *)

None == <<>>

Some(x) == <<x>>

Val(o) == o[1]

(* Python truthiness of an optional number: None and 0 are falsy.          *)
Truthy(o) == o # None /\ Val(o) # 0

(* "x or 0" on an optional number.                                         *)
OrZero(o) == IF Truthy(o) THEN Val(o) ELSE 0

Min(a, b) == IF a <= b THEN a ELSE b

Max(a, b) == IF a >= b THEN a ELSE b

SetMin(S) == CHOOSE x \in S : \A y \in S : x <= y

SetMax(S) == CHOOSE x \in S : \A y \in S : x >= y

Abs(n) == IF n < 0 THEN -n ELSE n

(* Python round(num/den) for den > 0: nearest integer, ties to even.       *)
RoundHalfEven(num, den) ==
    LET q == num \div den
        r == num % den
    IN  IF 2 * r < den THEN q
        ELSE IF 2 * r > den THEN q + 1
        ELSE IF q % 2 = 0 THEN q ELSE q + 1

----------------------------------------------------------------------------
(* Texts                                                                   *)

DIGITS == <<"0", "1", "2", "3", "4", "5", "6", "7", "8", "9">>

IsDigit(ch) == \E d \in 1..10 : DIGITS[d] = ch

DigitVal(ch) == (CHOOSE d \in 1..10 : DIGITS[d] = ch) - 1

IsSpace(ch) == ch = " "

(* Decimal digits of n >= 0, without padding: str(n).                      *)
RECURSIVE IntStr(_)
IntStr(n) == IF n < 10 THEN <<DIGITS[n + 1]>>
             ELSE IntStr(n \div 10) \o <<DIGITS[(n % 10) + 1]>>

(* f"{n:0wd}" for n >= 0: zero-padded to at least w characters.            *)
RECURSIVE PadLeft(_, _)
PadLeft(s, w) == IF Len(s) >= w THEN s ELSE PadLeft(<<"0">> \o s, w)

Fmt(n, w) == PadLeft(IntStr(n), w)

(* int(s) for a text made of digits.                                       *)
RECURSIVE ParseInt(_)
ParseInt(s) == IF s = <<>> THEN 0
               ELSE 10 * ParseInt(SubSeq(s, 1, Len(s) - 1)) + DigitVal(s[Len(s)])

AllDigits(s, i, n) == i + n - 1 <= Len(s) /\ \A k \in i..(i + n - 1) : IsDigit(s[k])

(* " ".join(tokens) over the non-empty tokens, as " ".join(text.split()).  *)
RECURSIVE JoinTokens(_)
JoinTokens(toks) ==
    IF toks = <<>> THEN <<>>
    ELSE IF Head(toks) = <<>> THEN JoinTokens(Tail(toks))
    ELSE LET rest == JoinTokens(Tail(toks))
         IN  IF rest = <<>> THEN Head(toks) ELSE Head(toks) \o <<" ">> \o rest

(* First index >= i of s that does not hold white space (Len(s)+1 if none). *)
RECURSIVE SkipSpaces(_, _)
SkipSpaces(s, i) == IF i <= Len(s) /\ IsSpace(s[i]) THEN SkipSpaces(s, i + 1) ELSE i

----------------------------------------------------------------------------
(* metar_service.classify_flight_category                                  *)

(* re.search(r'\d{5}KT\s+(\d{4})', metar) matching at position i.          *)
VisMatchAt(s, i) ==
    /\ AllDigits(s, i, 5)
    /\ i + 7 <= Len(s)
    /\ s[i + 5] = "K" /\ s[i + 6] = "T"
    /\ IsSpace(s[i + 7])
    /\ AllDigits(s, SkipSpaces(s, i + 7), 4)

(* re.search(r'KT\s+(\d{4})(?:\s|$)', metar) matching at position i.       *)
VisAltMatchAt(s, i) ==
    /\ i + 2 <= Len(s)
    /\ s[i] = "K" /\ s[i + 1] = "T"
    /\ IsSpace(s[i + 2])
    /\ LET j == SkipSpaces(s, i + 2)
       IN  /\ AllDigits(s, j, 4)
           /\ (j + 4 > Len(s) \/ IsSpace(s[j + 4]))

(* The visibility the classifier reads, in metres, before the 9999 rule.   *)
ExtractVisibility(s) ==
    LET m1 == {i \in 1..Len(s) : VisMatchAt(s, i)}
        m2 == {i \in 1..Len(s) : VisAltMatchAt(s, i)}
    IN  IF m1 # {}
        THEN LET j == SkipSpaces(s, SetMin(m1) + 7) IN Some(ParseInt(SubSeq(s, j, j + 3)))
        ELSE IF m2 # {}
        THEN LET j == SkipSpaces(s, SetMin(m2) + 2) IN Some(ParseInt(SubSeq(s, j, j + 3)))
        ELSE None

(* re.findall(r'(BKN|OVC)(\d{3})', metar) matching at position i.          *)
CloudMatchAt(s, i) ==
    /\ i + 5 <= Len(s)
    /\ SubSeq(s, i, i + 2) \in {<<"B", "K", "N">>, <<"O", "V", "C">>}
    /\ AllDigits(s, i + 3, 3)

(* Lowest BKN/OVC layer in feet.                                           *)
ExtractCeiling(s) ==
    LET m == {i \in 1..Len(s) : CloudMatchAt(s, i)}
    IN  IF m = {} THEN None
        ELSE Some(SetMin({ParseInt(SubSeq(s, i + 3, i + 5)) * 100 : i \in m}))

(* The chain with the MVFR ceiling bound written as a strict comparison.   *)
CategoryOfStrictMvfr(ceiling_ft, visibility_m) ==
    IF (ceiling_ft # None /\ Val(ceiling_ft) < 500)
         \/ (visibility_m # None /\ Val(visibility_m) < 1000) THEN "LIFR"
    ELSE IF (ceiling_ft # None /\ Val(ceiling_ft) < 1000)
         \/ (visibility_m # None /\ Val(visibility_m) < 3000) THEN "IFR"
    ELSE IF (ceiling_ft # None /\ Val(ceiling_ft) < 3000)
         \/ (visibility_m # None /\ Val(visibility_m) <= 5000) THEN "MVFR"
    ELSE "VFR"

(* The chain with the MVFR ceiling comparison turned round.                *)
CategoryOfReversedMvfr(ceiling_ft, visibility_m) ==
    IF (ceiling_ft # None /\ Val(ceiling_ft) < 500)
         \/ (visibility_m # None /\ Val(visibility_m) < 1000) THEN "LIFR"
    ELSE IF (ceiling_ft # None /\ Val(ceiling_ft) < 1000)
         \/ (visibility_m # None /\ Val(visibility_m) < 3000) THEN "IFR"
    ELSE IF (ceiling_ft # None /\ Val(ceiling_ft) >= 3000)
         \/ (visibility_m # None /\ Val(visibility_m) <= 5000) THEN "MVFR"
    ELSE "VFR"

(* The if/elif chain that maps ceiling and visibility to a category.       *)
CategoryOf(ceiling_ft, visibility_m) ==
    IF (ceiling_ft # None /\ Val(ceiling_ft) < 500)
         \/ (visibility_m # None /\ Val(visibility_m) < 1000) THEN "LIFR"
    ELSE IF (ceiling_ft # None /\ Val(ceiling_ft) < 1000)
         \/ (visibility_m # None /\ Val(visibility_m) < 3000) THEN "IFR"
    ELSE IF (ceiling_ft # None /\ Val(ceiling_ft) <= 3000)
         \/ (visibility_m # None /\ Val(visibility_m) <= 5000) THEN "MVFR"
    ELSE "VFR"

classify_flight_category(metar) ==
    IF metar = <<>> \/ Len(metar) < 10
    THEN [category |-> "DESCONOCIDO", visibility_m |-> None, ceiling_ft |-> None]
    ELSE LET raw_vis      == ExtractVisibility(metar)
             visibility_m == IF raw_vis = Some(9999) THEN Some(10000) ELSE raw_vis
             ceiling_ft   == ExtractCeiling(metar)
         IN  [category     |-> CategoryOf(ceiling_ft, visibility_m),
              visibility_m |-> visibility_m,
              ceiling_ft   |-> ceiling_ft]

----------------------------------------------------------------------------
(* metar_generator: unit helpers and tables                                *)

(* The Magnus formula needs a logarithm; it is tabulated for the           *)
(* (temperature, humidity) pairs the model supplies, to the nearest        *)
(* thousandth of a degree, from the source's own function.                 *)
MagnusTable ==
    [p \in {<<10000, 100>>, <<10000, 97>>, <<10000, 93>>, <<10000, 50>>,
            <<-500, 100>>, <<-500, 97>>, <<-500, 93>>, <<-500, 50>>} |->
        CASE p = <<10000, 100>> -> 10000
          [] p = <<10000, 97>>  -> 9546
          [] p = <<10000, 93>>  -> 8920
          [] p = <<10000, 50>>  -> 56
          [] p = <<-500, 100>>  -> -500
          [] p = <<-500, 97>>   -> -917
          [] p = <<-500, 93>>   -> -1490
          [] p = <<-500, 50>>   -> -9634]

calculate_dewpoint(temperature_c, humidity_percent) ==
    IF humidity_percent <= 0 \/ humidity_percent > 100
    THEN temperature_c - 5000
    ELSE MagnusTable[<<temperature_c, humidity_percent>>]

(* round(speed_kmh * 0.539957), the speed given in tenths of km/h.         *)
kmh_to_knots(speed_kmh) == RoundHalfEven(speed_kmh * 539957, 10000000)

get_weather_phenomena(weather_code) ==
    CASE weather_code \in {45, 48} -> <<"F", "G">>
      [] weather_code \in {51, 53} -> <<"D", "Z">>
      [] weather_code = 55 -> <<"+", "D", "Z">>
      [] weather_code = 56 -> <<"-", "F", "Z", "D", "Z">>
      [] weather_code = 57 -> <<"F", "Z", "D", "Z">>
      [] weather_code = 61 -> <<"-", "R", "A">>
      [] weather_code = 63 -> <<"R", "A">>
      [] weather_code = 65 -> <<"+", "R", "A">>
      [] weather_code = 66 -> <<"-", "F", "Z", "R", "A">>
      [] weather_code = 67 -> <<"F", "Z", "R", "A">>
      [] weather_code = 71 -> <<"-", "S", "N">>
      [] weather_code = 73 -> <<"S", "N">>
      [] weather_code = 75 -> <<"+", "S", "N">>
      [] weather_code = 77 -> <<"S", "G">>
      [] weather_code = 80 -> <<"-", "S", "H", "R", "A">>
      [] weather_code = 81 -> <<"S", "H", "R", "A">>
      [] weather_code = 82 -> <<"+", "S", "H", "R", "A">>
      [] weather_code = 85 -> <<"-", "S", "H", "S", "N">>
      [] weather_code = 86 -> <<"+", "S", "H", "S", "N">>
      [] weather_code = 95 -> <<"T", "S">>
      [] weather_code = 96 -> <<"T", "S", "R", "A">>
      [] weather_code = 99 -> <<"+", "T", "S", "R", "A">>
      [] OTHER -> <<>>

(* _VIS_CAP_KM.get(weather_code), the cap given in metres (int(cap*1000)). *)
_VIS_CAP_KM(weather_code) ==
    CASE weather_code \in {45, 48} -> Some(800)
      [] weather_code \in {51, 61, 71, 80} -> Some(8000)
      [] weather_code \in {53, 63, 81, 85} -> Some(6000)
      [] weather_code \in {55, 65, 95} -> Some(3000)
      [] weather_code \in {56, 66, 75, 82, 86} -> Some(2000)
      [] weather_code \in {57, 67, 96, 99} -> Some(1500)
      [] weather_code \in {73, 77} -> Some(5000)
      [] OTHER -> None

get_visibility(weather_code) ==
    LET cap == _VIS_CAP_KM(weather_code)
    IN  IF cap = None THEN <<"9", "9", "9", "9">>
        ELSE IF Val(cap) >= 9999 THEN <<"9", "9", "9", "9">>
        ELSE Fmt(RoundHalfEven(Val(cap), 100) * 100, 4)

(* strftime("%d%H%M") of a UTC instant.                                    *)
DayHour(t) == Fmt(t.day, 2) \o Fmt(t.hour, 2) \o Fmt(t.minute, 2)

----------------------------------------------------------------------------
(* metar_generator.generate_metar_lemr                                     *)

(* The wind group without the replacement of a rounded direction 0 by 360. *)
WindGroupNorthAsZero(s) ==
    LET wind_kt   == kmh_to_knots(Val(s.wind_speed))
        wind_dir  == RoundHalfEven(Val(s.wind_direction), 10) * 10
    IN  IF wind_kt = 0 THEN <<"0", "0", "0", "0", "0", "K", "T">>
        ELSE IF wind_kt < 3 THEN <<"V", "R", "B">> \o Fmt(wind_kt, 2) \o <<"K", "T">>
        ELSE IF Truthy(s.wind_gusts) /\ Val(s.wind_gusts) - Val(s.wind_speed) >= 185
        THEN Fmt(wind_dir, 3) \o Fmt(wind_kt, 2) \o <<"G">>
               \o Fmt(kmh_to_knots(Val(s.wind_gusts)), 2) \o <<"K", "T">>
        ELSE Fmt(wind_dir, 3) \o Fmt(wind_kt, 2) \o <<"K", "T">>

WindGroup(s) ==
    LET wind_kt   == kmh_to_knots(Val(s.wind_speed))
        rounded   == RoundHalfEven(Val(s.wind_direction), 10) * 10
        wind_dir  == IF rounded = 0 /\ wind_kt > 0 THEN 360 ELSE rounded
    IN  IF wind_kt = 0 THEN <<"0", "0", "0", "0", "0", "K", "T">>
        ELSE IF wind_kt < 3 THEN <<"V", "R", "B">> \o Fmt(wind_kt, 2) \o <<"K", "T">>
        ELSE IF Truthy(s.wind_gusts) /\ Val(s.wind_gusts) - Val(s.wind_speed) >= 185
        THEN Fmt(wind_dir, 3) \o Fmt(wind_kt, 2) \o <<"G">>
               \o Fmt(kmh_to_knots(Val(s.wind_gusts)), 2) \o <<"K", "T">>
        ELSE Fmt(wind_dir, 3) \o Fmt(wind_kt, 2) \o <<"K", "T">>

(* The visibility step without the branch that forces 0800 for fog codes.  *)
VisibilityGroupFogNotForced(s) ==
    LET vis_cap == _VIS_CAP_KM(s.weather_code)
    IN  IF s.visibility_km # None
        THEN LET vis_m == IF vis_cap # None
                          THEN Min(Val(s.visibility_km), Val(vis_cap))
                          ELSE Val(s.visibility_km)
             IN  IF vis_m >= 9999 THEN <<"9", "9", "9", "9">>
                 ELSE Fmt(Max(100, RoundHalfEven(vis_m, 100) * 100), 4)
        ELSE get_visibility(s.weather_code)

(* The visibility step using a supplied visibility without the cap.        *)
VisibilityGroupUncapped(s) ==
    IF s.weather_code \in {45, 48} THEN <<"0", "8", "0", "0">>
    ELSE IF s.visibility_km # None
    THEN LET vis_m == Val(s.visibility_km)
         IN  IF vis_m >= 9999 THEN <<"9", "9", "9", "9">>
             ELSE Fmt(Max(100, RoundHalfEven(vis_m, 100) * 100), 4)
    ELSE get_visibility(s.weather_code)

(* The visibility group before the fog override of the cloud step.         *)
VisibilityGroup(s) ==
    LET vis_cap == _VIS_CAP_KM(s.weather_code)
    IN  IF s.weather_code \in {45, 48} THEN <<"0", "8", "0", "0">>
        ELSE IF s.visibility_km # None
        THEN LET vis_m == IF vis_cap # None
                          THEN Min(Val(s.visibility_km), Val(vis_cap))
                          ELSE Val(s.visibility_km)
             IN  IF vis_m >= 9999 THEN <<"9", "9", "9", "9">>
                 ELSE Fmt(Max(100, RoundHalfEven(vis_m, 100) * 100), 4)
        ELSE get_visibility(s.weather_code)

DewpointOf(s) ==
    IF s.dewpoint_c # None THEN Val(s.dewpoint_c)
    ELSE calculate_dewpoint(Val(s.temperature), Val(s.humidity))

(* A fog ceiling capped at 400 ft, written without the 400 ft cap.         *)
FogCeilingUncapped(lcl_hundreds) == Max(1, lcl_hundreds)

(* fog_ceiling = min(lcl_hundreds, 4), emitted as max(1, fog_ceiling).     *)
FogCeiling(lcl_hundreds) == Max(1, Min(lcl_hundreds, 4))

(* The tier chain with the FEW bound written as a strict comparison.       *)
CloudTierStrictFew(ccl) ==
    IF ~Truthy(ccl) THEN <<"N", "C", "D">>
    ELSE IF Val(ccl) < 25 THEN <<"F", "E", "W">>
    ELSE IF Val(ccl) <= 50 THEN <<"S", "C", "T">>
    ELSE IF Val(ccl) <= 87 THEN <<"B", "K", "N">>
    ELSE <<"O", "V", "C">>

(* The coverage tier of the elif chain on cloud_cover_low outside fog.     *)
CloudTier(ccl) ==
    IF ~Truthy(ccl) THEN <<"N", "C", "D">>
    ELSE IF Val(ccl) <= 25 THEN <<"F", "E", "W">>
    ELSE IF Val(ccl) <= 50 THEN <<"S", "C", "T">>
    ELSE IF Val(ccl) <= 87 THEN <<"B", "K", "N">>
    ELSE <<"O", "V", "C">>

(* Visibility, phenomenon and cloud groups after the cloud step.           *)
WeatherGroups(s) ==
    LET vis0         == VisibilityGroup(s)
        wx0          == get_weather_phenomena(s.weather_code)
        td_spread    == Val(s.temperature) - DewpointOf(s)
        lcl_ft       == Max(100, RoundHalfEven(td_spread * 4, 1000) * 100)
        lcl_hundreds == Max(1, lcl_ft \div 100)
        implicit_fog == td_spread <= 1000 /\ s.cloud_cover_low # None
                          /\ Val(s.cloud_cover_low) > 87
        ccl          == s.cloud_cover_low
    IN  IF s.weather_code \in {45, 48} \/ implicit_fog
        THEN LET clouds == <<"O", "V", "C">> \o Fmt(FogCeiling(lcl_hundreds), 3)
             IN  IF s.weather_code \notin {45, 48} /\ vis0 = <<"9", "9", "9", "9">>
                 THEN IF td_spread <= 500
                      THEN [visibility |-> <<"0", "3", "0", "0">>,
                            wx |-> IF wx0 = <<>> THEN <<"F", "G">> ELSE wx0,
                            clouds |-> clouds]
                      ELSE [visibility |-> <<"1", "0", "0", "0">>,
                            wx |-> IF wx0 = <<>> THEN <<"B", "R">> ELSE wx0,
                            clouds |-> clouds]
                 ELSE [visibility |-> vis0, wx |-> wx0, clouds |-> clouds]
        ELSE [visibility |-> vis0, wx |-> wx0,
              clouds |->
                 IF CloudTier(ccl) = <<"N", "C", "D">> THEN <<"N", "C", "D">>
                 ELSE CloudTier(ccl) \o Fmt(lcl_hundreds, 3)]

TempGroup(s) ==
    LET temp_int     == RoundHalfEven(Val(s.temperature), 1000)
        dewpoint_int == RoundHalfEven(DewpointOf(s), 1000)
    IN  (IF temp_int < 0 THEN <<"M">> ELSE <<>>) \o Fmt(Abs(temp_int), 2) \o <<"/">>
          \o (IF dewpoint_int < 0 THEN <<"M">> ELSE <<>>) \o Fmt(Abs(dewpoint_int), 2)

(* The validation of the critical fields.                                  *)
MissingCritical(s) ==
    \/ s.temperature = None
    \/ s.humidity = None
    \/ s.wind_speed = None
    \/ s.wind_direction = None
    \/ s.pressure = None

(* The CAVOK test without its condition on the cloud group.                *)
UseCavokAnyCloud(g) == g.visibility = <<"9", "9", "9", "9">> /\ g.wx = <<>>

(* use_cavok: visibility 9999, no phenomenon and cloud group NCD.          *)
UseCavok(g) ==
    /\ g.visibility = <<"9", "9", "9", "9">>
    /\ g.wx = <<>>
    /\ g.clouds = <<"N", "C", "D">>

(* An operation of the body raises: the gust difference, the cap on the    *)
(* supplied visibility or a cloud-cover comparison is reached with None as *)
(* an operand.                                                             *)
RaisesInside(s) ==
    \/ (kmh_to_knots(Val(s.wind_speed)) >= 3 /\ Truthy(s.wind_gusts)
          /\ s.wind_gusts = None)
    \/ (s.weather_code \notin {45, 48} /\ s.visibility_km # None
          /\ s.visibility_km = None)
    \/ (s.dewpoint_c = None /\ s.humidity = None)
    \/ (s.cloud_cover_low # None /\ s.cloud_cover_low = None)
    \/ (Truthy(s.cloud_cover_low) /\ s.cloud_cover_low = None)

(* The whole body is inside try/except Exception: an exception raised      *)
(* inside is turned into the return value None.                            *)
generate_metar_lemr(s, now) ==
    IF MissingCritical(s) THEN None
    ELSE IF RaisesInside(s) THEN None
    ELSE LET day_hour == IF s.time # None THEN DayHour(Val(s.time)) ELSE DayHour(now)
             g        == WeatherGroups(s)
             qnh      == <<"Q">> \o Fmt(RoundHalfEven(Val(s.pressure), 10), 4)
             use_cavok == UseCavok(g)
             head     == <<<<"M", "E", "T", "A", "R">>, <<"L", "E", "M", "R">>,
                           day_hour \o <<"Z">>, <<"A", "U", "T", "O">>, WindGroup(s)>>
             body     == IF use_cavok THEN <<<<"C", "A", "V", "O", "K">>>>
                         ELSE <<g.visibility, g.wx, g.clouds>>
         IN  Some(JoinTokens(head \o body \o <<TempGroup(s), qnh>>))

----------------------------------------------------------------------------
(* Inputs of the report pipeline                                           *)

(* Largest number of cloud layers in a LEAS observation.                   *)
MaxLayers == 2

(* Largest dew-point spread of the encoder grid, in quarters of a degree.  *)
MaxSpreadQ == 6

(* Layer heights (hundreds of feet) around the thresholds 500/1000/3000 ft. *)
CeilHeights == {4, 5, 9, 10, 30, 31}

LeasTiers == {<<"F", "E", "W">>, <<"S", "C", "T">>, <<"B", "K", "N">>, <<"O", "V", "C">>}

LeasLayers == [tier : LeasTiers, height : CeilHeights]

(* Layers are reported from the lowest to the highest.                     *)
RECURSIVE LayerSeqs(_)
LayerSeqs(n) ==
    IF n = 0 THEN {<<>>}
    ELSE UNION {{Append(q, l) : l \in {x \in LeasLayers :
                                          q = <<>> \/ q[Len(q)].height < x.height}}
                : q \in LayerSeqs(n - 1)}

(* Visibilities (metres) around the thresholds 1000/3000/5000 m.           *)
LeasVisibilities == {None, Some(900), Some(1000), Some(2900), Some(3000),
                     Some(5000), Some(6000), Some(9999)}

LeasWinds == {<<"2", "7", "0", "1", "0", "K", "T">>,
              <<"0", "0", "0", "0", "0", "K", "T">>,
              <<"V", "R", "B", "0", "2", "K", "T">>,
              <<"2", "7", "0", "1", "5", "G", "2", "8", "K", "T">>}

NoObservation == [kind |-> "none", wind |-> <<>>, vis |-> None, layers |-> <<>>]

(* A reply of the METAR service that is not a report.                      *)
ShortReply == [kind |-> "raw", wind |-> <<>>, vis |-> None, layers |-> <<>>]

(* Every visibility with at most one layer; every stack of up to MaxLayers *)
(* layers with an absent, a restricting and an unlimited visibility; every *)
(* form of wind group with every visibility.                               *)
LeasObservations ==
    {[kind |-> "obs", wind |-> <<"2", "7", "0", "1", "0", "K", "T">>, vis |-> v, layers |-> q] :
        v \in LeasVisibilities, q \in LayerSeqs(0) \cup LayerSeqs(1)}
    \cup
    {[kind |-> "obs", wind |-> <<"2", "7", "0", "1", "0", "K", "T">>, vis |-> v, layers |-> q] :
        v \in {None, Some(2900), Some(9999)},
        q \in UNION {LayerSeqs(n) : n \in 0..MaxLayers}}
    \cup
    {[kind |-> "obs", wind |-> w, vis |-> v, layers |-> q] :
        w \in LeasWinds, v \in LeasVisibilities,
        q \in {<<>>, <<[tier |-> <<"B", "K", "N">>, height |-> 9]>>}}
    \cup {NoObservation, ShortReply}

RECURSIVE LayerTokens(_)
LayerTokens(q) ==
    IF q = <<>> THEN <<>>
    ELSE <<Head(q).tier \o Fmt(Head(q).height, 3)>> \o LayerTokens(Tail(q))

(* The text get_metar returns for an observation: response.text.strip(),   *)
(* or None when the service is unavailable.                                *)
get_metar(o) ==
    CASE o.kind = "none" -> None
      [] o.kind = "raw"  -> <<"L", "E", "A", "S", " ", "N", "I", "L">>
      [] OTHER ->
           JoinTokens(<<<<"L", "E", "A", "S">>, <<"0", "5", "1", "2", "0", "0", "Z">>, o.wind,
                        IF o.vis # None THEN Fmt(Val(o.vis), 4)
                        ELSE IF o.layers = <<>> THEN <<"C", "A", "V", "O", "K">>
                        ELSE <<"/", "/", "/", "/">>>>
                      \o LayerTokens(o.layers)
                      \o <<<<"1", "5", "/", "0", "8">>, <<"Q", "1", "0", "1", "3">>>>)

Stamp0 == [day |-> 5, hour |-> 12, minute |-> 0]

Stamp1 == [day |-> 5, hour |-> 12, minute |-> 1]

NowStamps == {Stamp0, Stamp1}

BaseSample ==
    [temperature |-> Some(10000), humidity |-> Some(93), wind_speed |-> Some(200),
     wind_direction |-> Some(270), wind_gusts |-> None, pressure |-> Some(10132),
     weather_code |-> 0, time |-> Some(Stamp0), visibility_km |-> None,
     dewpoint_c |-> None, cloud_cover_low |-> None]

(* Every combination of present and absent critical fields.                *)
MissingFamily ==
    {[BaseSample EXCEPT !.temperature = t, !.humidity = h, !.wind_speed = ws,
                        !.wind_direction = wd, !.pressure = p, !.dewpoint_c = dp] :
        t \in {None, Some(10000)}, h \in {None, Some(93)}, ws \in {None, Some(200)},
        wd \in {None, Some(270)}, p \in {None, Some(10132)}, dp \in {None, Some(9000)}}

Dewpoints == {None, Some(0)} \cup {Some(10000 - 250 * k) : k \in 0..MaxSpreadQ}

WeatherCodes == {0, 3, 45, 48, 55, 63, 95, 96}

Visibilities == {None, Some(200), Some(2540), Some(4000), Some(9960), Some(20000)}

CloudCovers == {None, Some(0), Some(25), Some(26), Some(50), Some(51), Some(87),
                Some(88), Some(100)}

WeatherFamily ==
    {[BaseSample EXCEPT !.dewpoint_c = d, !.weather_code = w, !.visibility_km = v,
                        !.cloud_cover_low = c] :
        d \in Dewpoints, w \in WeatherCodes, v \in Visibilities, c \in CloudCovers}

WindFamily ==
    {[BaseSample EXCEPT !.wind_speed = ws, !.wind_direction = wd, !.wind_gusts = g,
                        !.time = t] :
        ws \in {Some(0), Some(9), Some(30), Some(47), Some(200), Some(215)},
        wd \in {Some(0), Some(4), Some(5), Some(15), Some(25), Some(270), Some(354),
                Some(355)},
        g \in {None, Some(0), Some(380), Some(400)}, t \in {None, Some(Stamp0)}}

HumidityFamily ==
    {[BaseSample EXCEPT !.temperature = Some(t), !.humidity = Some(h),
                        !.cloud_cover_low = c] :
        t \in {10000, -500}, h \in {0, 50, 93, 97, 100, 101},
        c \in {None, Some(60), Some(95)}}

(* A calm sample with T = Td = 10 C, pressure 1013 hPa, no low cloud and   *)
(* no phenomenon, the dew point supplied directly.                         *)
CalmSample ==
    [BaseSample EXCEPT !.wind_speed = Some(0), !.wind_direction = Some(0),
                       !.pressure = Some(10130), !.dewpoint_c = Some(10000),
                       !.cloud_cover_low = Some(0)]

(* The calm sample with the dew point supplied or derived from a humidity  *)
(* of 100 %, and the low cloud cover zero or absent.                       *)
CalmFamily ==
    {[CalmSample EXCEPT !.humidity = h, !.dewpoint_c = d, !.cloud_cover_low = c] :
        h \in {Some(93), Some(100)}, d \in {None, Some(10000)}, c \in {None, Some(0)}}

EncoderSamples ==
    MissingFamily \cup WeatherFamily \cup WindFamily \cup HumidityFamily \cup CalmFamily

(* A few samples whose reports spread over the categories.                 *)
ClassifierSamples ==
    {[BaseSample EXCEPT !.wind_speed = None],
     BaseSample,
     [BaseSample EXCEPT !.weather_code = 45],
     [BaseSample EXCEPT !.dewpoint_c = Some(7500), !.cloud_cover_low = Some(60),
                        !.visibility_km = Some(4000)],
     [BaseSample EXCEPT !.dewpoint_c = Some(7750), !.cloud_cover_low = Some(60),
                        !.visibility_km = Some(3000)],
     [BaseSample EXCEPT !.cloud_cover_low = Some(50), !.visibility_km = Some(2900)],
     [BaseSample EXCEPT !.dewpoint_c = Some(2500), !.cloud_cover_low = Some(60),
                        !.visibility_km = Some(6000)],
     [BaseSample EXCEPT !.dewpoint_c = Some(0), !.cloud_cover_low = Some(95)]}

(* The text shown when no synthetic report could be generated.             *)
NOT_AVAILABLE ==
    <<"L", "E", "M", "R", " ", "M", "E", "T", "A", "R", " ", "N", "O", "T", " ",
      "A", "V", "A", "I", "L", "A", "B", "L", "E">>

----------------------------------------------------------------------------
(* The report pipeline: fetch LEAS, encode LEMR, classify both.            *)

FogIdle == date_str = 0 /\ hourly_forecast = <<>> /\ fog_risk = None

ConvIdle == conv_in = None /\ conv_risk = None

RunwayIdle == runway_in = None /\ runway_rec = None

(* Threads that call send_alert: a request handler and the background      *)
(* regeneration of the cache.                                              *)
Threads == {"request", "background"}

(* Alert sources, a sample of the identifiers the callers pass.            *)
Sources == {"openmeteo", "ia"}

(* The module state of telegram_monitor right after import, no thread      *)
(* inside send_alert.                                                      *)
AlertIdle ==
    /\ clock = 0
    /\ last_alert = [s \in Sources |-> None]
    /\ alert_pc = [t \in Threads |-> "idle"]
    /\ alert_source = [t \in Threads |-> "openmeteo"]
    /\ alert_now = [t \in Threads |-> 0]
    /\ alert_calls = [t \in Threads |-> 0]
    /\ alert_ret = [t \in Threads |-> None]
    /\ posted = <<>>

(* config.AI_MODEL_CASCADE, its first two models.                          *)
AI_MODEL_CASCADE == <<"gpt-4o", "gpt-4o-mini">>

CascadeModels == {AI_MODEL_CASCADE[i] : i \in 1..Len(AI_MODEL_CASCADE)}

CascadeIdle ==
    /\ cycle = 0
    /\ forced_fallback = [m \in CascadeModels |-> None]
    /\ casc_pc = [t \in Threads |-> "idle"]
    /\ casc_idx = [t \in Threads |-> 1]
    /\ casc_last = [t \in Threads |-> None]
    /\ casc_ret = [t \in Threads |-> None]
    /\ casc_started = 0
    /\ events = <<>>

(* The callers of get_report_payload: a request handler and the cycle      *)
(* warmer thread.                                                          *)
Callers == {"api_report", "warmer"}

EmptyCache == [cache_key |-> None, generated_at |-> None, payload |-> None]

CacheIdle ==
    /\ now_cycle = 0
    /\ cache = EmptyCache
    /\ req_pc = [t \in Callers |-> "idle"]
    /\ req_args = [t \in Callers |-> None]
    /\ req_ret = [t \in Callers |-> None]
    /\ req_started = 0
    /\ regens = <<>>

PayloadIdle == weather_data = None /\ report_payload = None

ReportIdle ==
    /\ leas_obs = NoObservation /\ metar_leas = None
    /\ sample = BaseSample /\ now_utc = Stamp0
    /\ generated = None /\ metar_lemr = None
    /\ flight_cat_leas = None /\ flight_cat_lemr = None
    /\ regenerated = None

InitReport(observations, samples, nows) ==
    /\ pc = "get_metar"
    /\ leas_obs \in observations
    /\ sample \in samples
    /\ now_utc \in nows
    /\ metar_leas = None /\ generated = None /\ metar_lemr = None
    /\ flight_cat_leas = None /\ flight_cat_lemr = None
    /\ regenerated = None /\ escaped = {}
    /\ FogIdle /\ ConvIdle /\ RunwayIdle /\ AlertIdle /\ CascadeIdle /\ CacheIdle
    /\ PayloadIdle

InitClassifier == InitReport(LeasObservations, ClassifierSamples, {Stamp0})

InitEncoder == InitReport({NoObservation, ShortReply}, EncoderSamples, NowStamps)

GetMetar ==
    /\ pc = "get_metar"
    /\ metar_leas' = get_metar(leas_obs)
    /\ pc' = "generate"
    /\ UNCHANGED <<leas_obs, sample, now_utc, generated, metar_lemr,
                   flight_cat_leas, flight_cat_lemr, regenerated, escaped,
                   fogVars, convVars, runwayVars, alertVars, cascadeVars, cacheVars,
                   payloadVars>>

Generate ==
    /\ pc = "generate"
    /\ generated' = generate_metar_lemr(sample, now_utc)
    /\ metar_lemr' = IF generated' # None THEN Val(generated') ELSE NOT_AVAILABLE
    /\ pc' = "classify_leas"
    /\ UNCHANGED <<leas_obs, metar_leas, sample, now_utc,
                   flight_cat_leas, flight_cat_lemr, regenerated, escaped,
                   fogVars, convVars, runwayVars, alertVars, cascadeVars, cacheVars,
                   payloadVars>>

ClassifyLeas ==
    /\ pc = "classify_leas"
    /\ flight_cat_leas' = IF metar_leas # <<>>
                          THEN Some(classify_flight_category(metar_leas)) ELSE None
    /\ pc' = "classify_lemr"
    /\ UNCHANGED <<leas_obs, metar_leas, sample, now_utc, generated, metar_lemr,
                   flight_cat_lemr, regenerated, escaped,
                   fogVars, convVars, runwayVars, alertVars, cascadeVars, cacheVars,
                   payloadVars>>

ClassifyLemr ==
    /\ pc = "classify_lemr"
    /\ flight_cat_lemr' = IF metar_lemr # <<>>
                          THEN Some(classify_flight_category(metar_lemr)) ELSE None
    /\ pc' = "report_done"
    /\ UNCHANGED <<leas_obs, metar_leas, sample, now_utc, generated, metar_lemr,
                   flight_cat_leas, regenerated, escaped,
                   fogVars, convVars, runwayVars, alertVars, cascadeVars, cacheVars,
                   payloadVars>>

NextReport == GetMetar \/ Generate \/ ClassifyLeas \/ ClassifyLemr

SpecClassifier == InitClassifier /\ [][NextReport]_vars

SpecEncoder == InitEncoder /\ [][NextReport]_vars

----------------------------------------------------------------------------
(* Two successive calls of generate_metar_lemr with the same arguments,    *)
(* as made by successive report generations; the clock may move between    *)
(* the calls.                                                              *)

StampMinutes(t) == (t.day * 24 + t.hour) * 60 + t.minute

InitReencode ==
    /\ pc = "encode"
    /\ leas_obs = NoObservation
    /\ sample \in EncoderSamples
    /\ now_utc = Stamp0
    /\ metar_leas = None /\ generated = None /\ metar_lemr = None
    /\ flight_cat_leas = None /\ flight_cat_lemr = None
    /\ regenerated = None /\ escaped = {}
    /\ FogIdle /\ ConvIdle /\ RunwayIdle /\ AlertIdle /\ CascadeIdle /\ CacheIdle
    /\ PayloadIdle

Encode ==
    /\ pc = "encode"
    /\ generated' = generate_metar_lemr(sample, now_utc)
    /\ pc' = "clock"
    /\ UNCHANGED <<leas_obs, metar_leas, sample, now_utc, metar_lemr,
                   flight_cat_leas, flight_cat_lemr, regenerated, escaped,
                   fogVars, convVars, runwayVars, alertVars, cascadeVars, cacheVars,
                   payloadVars>>

(* Time passes, or not, before the next call.                              *)
ClockTick ==
    /\ pc = "clock"
    /\ now_utc' \in {t \in NowStamps : StampMinutes(t) >= StampMinutes(now_utc)}
    /\ pc' = "reencode"
    /\ UNCHANGED <<leas_obs, metar_leas, sample, generated, metar_lemr,
                   flight_cat_leas, flight_cat_lemr, regenerated, escaped,
                   fogVars, convVars, runwayVars, alertVars, cascadeVars, cacheVars,
                   payloadVars>>

Reencode ==
    /\ pc = "reencode"
    /\ regenerated' = generate_metar_lemr(sample, now_utc)
    /\ pc' = "reencoded"
    /\ UNCHANGED <<leas_obs, metar_leas, sample, now_utc, generated, metar_lemr,
                   flight_cat_leas, flight_cat_lemr, escaped,
                   fogVars, convVars, runwayVars, alertVars, cascadeVars, cacheVars,
                   payloadVars>>

NextReencode == Encode \/ ClockTick \/ Reencode

SpecReencode == InitReencode /\ [][NextReencode]_vars

----------------------------------------------------------------------------
(* weather_service._compute_fog_risk                                       *)

(* An hour belongs to the window when it is 22:00 or later on the previous *)
(* day or 13:xx or earlier on the target day; an entry without a time      *)
(* string is left out.                                                     *)
InFogWindow(h, date) ==
    /\ h.time # None
    /\ \/ (Val(h.time).day = date - 1 /\ Val(h.time).hour >= 22)
       \/ (Val(h.time).day = date /\ Val(h.time).hour <= 13)

RECURSIVE FogHours(_, _)
FogHours(hours, date) ==
    IF hours = <<>> THEN <<>>
    ELSE (IF InFogWindow(Head(hours), date) THEN <<Head(hours)>> ELSE <<>>)
           \o FogHours(Tail(hours), date)

(* The guard of the spread, testing the temperature only.                  *)
MissingSpreadInputTempOnly(h) == h.temperature = None

(* if temp is None or dp is None: continue                                 *)
MissingSpreadInput(h) == h.temperature = None \/ h.dewpoint = None

(* The body of the loop with the visibility bounds written as inclusive    *)
(* comparisons.                                                            *)
FogEntryVisInclusive(h) ==
    LET wind == OrZero(h.wind_speed)
        pp   == OrZero(h.precipitation_prob)
        wx   == OrZero(h.weather_code)
    IN  IF pp > 30 THEN None
        ELSE IF wx \in {45, 48}
        THEN Some([time |-> Val(h.time).hour, spread |-> 0, wind |-> wind,
                   score |-> 5, confirmed |-> TRUE])
        ELSE IF MissingSpreadInput(h) THEN None
        ELSE LET spread == Val(h.temperature) - Val(h.dewpoint)
                 s1 == IF spread <= 2000 THEN 2 ELSE 1
                 s2 == IF wind <= 50 THEN 2 ELSE IF wind <= 100 THEN 1 ELSE 0
                 s3 == IF h.visibility = None THEN 0
                       ELSE IF Val(h.visibility) <= 1000 THEN 2
                       ELSE IF Val(h.visibility) <= 5000 THEN 1 ELSE 0
                 score == s1 + s2 + s3
             IN  IF spread > 3000 THEN None
                 ELSE IF score >= 2
                 THEN Some([time |-> Val(h.time).hour, spread |-> RoundHalfEven(spread, 100),
                            wind |-> wind, score |-> score, confirmed |-> FALSE])
                 ELSE None

(* The body of the loop for one hour: the entry appended to risky, or None *)
(* when the hour is skipped or scores less than 2.                         *)
FogEntry(h) ==
    LET wind == OrZero(h.wind_speed)
        pp   == OrZero(h.precipitation_prob)
        wx   == OrZero(h.weather_code)
    IN  IF pp > 30 THEN None
        ELSE IF wx \in {45, 48}
        THEN Some([time |-> Val(h.time).hour, spread |-> 0, wind |-> wind,
                   score |-> 5, confirmed |-> TRUE])
        ELSE IF MissingSpreadInput(h) THEN None
        ELSE LET spread == Val(h.temperature) - Val(h.dewpoint)
                 s1 == IF spread <= 2000 THEN 2 ELSE 1
                 s2 == IF wind <= 50 THEN 2 ELSE IF wind <= 100 THEN 1 ELSE 0
                 s3 == IF h.visibility = None THEN 0
                       ELSE IF Val(h.visibility) < 1000 THEN 2
                       ELSE IF Val(h.visibility) < 5000 THEN 1 ELSE 0
                 score == s1 + s2 + s3
             IN  IF spread > 3000 THEN None
                 ELSE IF score >= 2
                 THEN Some([time |-> Val(h.time).hour, spread |-> RoundHalfEven(spread, 100),
                            wind |-> wind, score |-> score, confirmed |-> FALSE])
                 ELSE None

(* The loop body raises TypeError for this hour: an arithmetic operation   *)
(* or an ordering comparison is reached with None as an operand.           *)
FogHourRaises(h) ==
    LET pp == OrZero(h.precipitation_prob)
        wx == OrZero(h.weather_code)
    IN  /\ ~(pp > 30)
        /\ wx \notin {45, 48}
        /\ ~MissingSpreadInput(h)
        /\ (h.temperature = None \/ h.dewpoint = None)

(* _compute_fog_risk has no exception handler: it raises when the loop     *)
(* body raises for an hour of the window.                                  *)
FogRaises(date, hours) ==
    LET fog_hours == FogHours(hours, date)
    IN  \E i \in 1..Len(fog_hours) : FogHourRaises(fog_hours[i])

RECURSIVE Risky(_)
Risky(hours) ==
    IF hours = <<>> THEN <<>>
    ELSE LET e == FogEntry(Head(hours))
         IN  (IF e # None THEN <<Val(e)>> ELSE <<>>) \o Risky(Tail(hours))

(* The level rule with the ALTO score bound written as a strict comparison. *)
FogLevelOfStrictAlto(risky) ==
    LET max_score == SetMax({risky[i].score : i \in 1..Len(risky)})
        confirmed == \E i \in 1..Len(risky) : risky[i].confirmed
    IN  IF confirmed \/ max_score > 4 THEN "ALTO"
        ELSE IF max_score >= 3 THEN "MODERADO"
        ELSE "BAJO"

FogLevelOf(risky) ==
    LET max_score == SetMax({risky[i].score : i \in 1..Len(risky)})
        confirmed == \E i \in 1..Len(risky) : risky[i].confirmed
    IN  IF confirmed \/ max_score >= 4 THEN "ALTO"
        ELSE IF max_score >= 3 THEN "MODERADO"
        ELSE "BAJO"

NoFogDetail == [peak_hour |-> None, min_spread |-> None, n_hours |-> None,
                operational_hours |-> None]

_compute_fog_risk(date, hours) ==
    LET fog_hours == FogHours(hours, date)
        risky     == Risky(fog_hours)
    IN  IF fog_hours = <<>> THEN [level |-> None] @@ NoFogDetail
        ELSE IF risky = <<>> THEN [level |-> Some("BAJO")] @@ NoFogDetail
        ELSE LET max_score == SetMax({risky[i].score : i \in 1..Len(risky)})
                 best      == risky[SetMin({i \in 1..Len(risky) : risky[i].score = max_score})]
                 spreads   == {risky[i].spread : i \in {j \in 1..Len(risky) : ~risky[j].confirmed}}
             IN  [level     |-> Some(FogLevelOf(risky)),
                  peak_hour |-> Some(best.time),
                  min_spread |-> IF spreads # {} THEN Some(SetMin(spreads)) ELSE None,
                  n_hours   |-> Some(Len(risky)),
                  operational_hours |->
                      Some({risky[i].time : i \in {j \in 1..Len(risky) :
                                risky[j].time >= 9 /\ risky[j].time <= 13}})]

----------------------------------------------------------------------------
(* Inputs of the fog assessment                                            *)

(* Largest number of hourly samples handed to the fog assessment.          *)
MaxHours == 2

TargetDay == 2

BaseHour ==
    [time |-> Some([day |-> TargetDay, hour |-> 9]), temperature |-> Some(12000),
     dewpoint |-> Some(11500), wind_speed |-> Some(30), precipitation_prob |-> Some(5),
     weather_code |-> Some(0), visibility |-> None]

(* One hour with every combination of the scored fields.                   *)
FogProfiles ==
    {[BaseHour EXCEPT !.time = Some([day |-> TargetDay, hour |-> hr]),
                      !.dewpoint = dp, !.wind_speed = w, !.precipitation_prob = pp,
                      !.weather_code = wx, !.visibility = v] :
        hr \in {9, 14},
        dp \in {None, Some(11500), Some(10000), Some(9750), Some(9000), Some(8750)},
        w \in {None, Some(50), Some(80), Some(100), Some(120)},
        pp \in {None, Some(30), Some(40)},
        wx \in {None, Some(45), Some(48)},
        v \in {None, Some(500), Some(1000), Some(5000)}}
    \cup {[BaseHour EXCEPT !.temperature = None], [BaseHour EXCEPT !.time = None]}

CuratedProfiles ==
    {BaseHour,
     [BaseHour EXCEPT !.weather_code = Some(45)],
     [BaseHour EXCEPT !.weather_code = Some(45), !.precipitation_prob = Some(40)],
     [BaseHour EXCEPT !.precipitation_prob = Some(40)],
     [BaseHour EXCEPT !.dewpoint = Some(10000), !.wind_speed = Some(80)],
     [BaseHour EXCEPT !.dewpoint = Some(9500), !.wind_speed = Some(80)],
     [BaseHour EXCEPT !.dewpoint = Some(9500), !.wind_speed = Some(120)],
     [BaseHour EXCEPT !.dewpoint = Some(7000)]}

CuratedTimes == {[day |-> TargetDay - 1, hour |-> 21], [day |-> TargetDay - 1, hour |-> 23],
                 [day |-> TargetDay, hour |-> 9]}

CuratedHours == {[p EXCEPT !.time = Some(t)] : p \in CuratedProfiles, t \in CuratedTimes}

RECURSIVE HourSeqs(_)
HourSeqs(n) ==
    IF n = 0 THEN {<<>>}
    ELSE {Append(q, h) : q \in HourSeqs(n - 1), h \in CuratedHours}

Forecasts == {<<h>> : h \in FogProfiles} \cup UNION {HourSeqs(n) : n \in 0..MaxHours}

InitFog ==
    /\ pc = "fog_call"
    /\ date_str = TargetDay
    /\ hourly_forecast \in Forecasts
    /\ fog_risk = None
    /\ escaped = {}
    /\ ReportIdle /\ ConvIdle /\ RunwayIdle /\ AlertIdle /\ CascadeIdle /\ CacheIdle
    /\ PayloadIdle

ComputeFogRisk ==
    /\ pc = "fog_call"
    /\ IF FogRaises(date_str, hourly_forecast)
       THEN /\ escaped' = escaped \cup {"_compute_fog_risk"}
            /\ UNCHANGED fog_risk
       ELSE /\ fog_risk' = Some(_compute_fog_risk(date_str, hourly_forecast))
            /\ UNCHANGED escaped
    /\ pc' = "fog_done"
    /\ UNCHANGED <<date_str, hourly_forecast, reportVars, convVars,
                   runwayVars, alertVars, cascadeVars, cacheVars,
                   payloadVars>>

NextFog == ComputeFogRisk

SpecFog == InitFog /\ [][NextFog]_vars

----------------------------------------------------------------------------
(* ai_service._detect_convective_risk                                      *)

(* Weights are counted in halves: indicators_met = weight2 / 2.            *)
ConvIndicators(c) ==
    LET cape == IF Truthy(c.cape) /\ Val(c.cape) > 500
                THEN [tags |-> <<"CAPE_RED">>, weight2 |-> 2]
                ELSE IF Truthy(c.cape) /\ Val(c.cape) > 250
                THEN [tags |-> <<"CAPE_YELLOW">>, weight2 |-> 0]
                ELSE [tags |-> <<>>, weight2 |-> 0]
        precip == IF Truthy(c.precipitation) /\ Val(c.precipitation) > 0
                  THEN [tags |-> <<"PRECIP_RED">>, weight2 |-> 2]
                  ELSE [tags |-> <<>>, weight2 |-> 0]
        gust == IF Truthy(c.wind_speed_kmh) /\ Truthy(c.wind_gusts_kmh)
                     /\ Val(c.wind_speed_kmh) > 0
                THEN LET diff == Val(c.wind_gusts_kmh) - Val(c.wind_speed_kmh)
                     IN  IF diff * 100 >= 8 * 1852
                         THEN [tags |-> <<"GUST_RED">>, weight2 |-> 2]
                         ELSE IF diff * 100 >= 5 * 1852
                         THEN [tags |-> <<"GUST_YELLOW">>, weight2 |-> 0]
                         ELSE [tags |-> <<>>, weight2 |-> 0]
                ELSE [tags |-> <<>>, weight2 |-> 0]
        cloud == IF Truthy(c.cloud_cover_low) /\ Val(c.cloud_cover_low) > 50
                 THEN [tags |-> <<"CLOUD_LOW_YELLOW">>,
                       weight2 |-> IF Val(c.cloud_cover_low) > 75 THEN 1 ELSE 0]
                 ELSE [tags |-> <<>>, weight2 |-> 0]
        li == IF Truthy(c.lifted_index) /\ Val(c.lifted_index) < -60
              THEN [tags |-> <<"LI_RED">>, weight2 |-> 2]
              ELSE IF Truthy(c.lifted_index) /\ Val(c.lifted_index) < -30
              THEN [tags |-> <<"LI_YELLOW">>, weight2 |-> 0]
              ELSE [tags |-> <<>>, weight2 |-> 0]
    IN  [tags |-> cape.tags \o precip.tags \o gust.tags \o cloud.tags \o li.tags,
         weight2 |-> cape.weight2 + precip.weight2 + gust.weight2 + cloud.weight2
                       + li.weight2]

AllAbsent(c) ==
    /\ c.cape = None /\ c.precipitation = None /\ c.wind_speed_kmh = None
    /\ c.wind_gusts_kmh = None /\ c.cloud_cover_low = None /\ c.weather_code = None
    /\ c.lifted_index = None

(* The thunderstorm veto written as a comparison that misses code 95.     *)
IsThunderstormCodeAbove95(c) == Truthy(c.weather_code) /\ Val(c.weather_code) > 95

(* weather_code and weather_code in (95, 96, 99)                           *)
IsThunderstormCode(c) == Truthy(c.weather_code) /\ Val(c.weather_code) \in {95, 96, 99}

(* The indicator scoring raises TypeError: an ordering comparison or a     *)
(* division is reached with None as an operand.  Every such operation is   *)
(* the right operand of an "and" whose left operands are the truth values  *)
(* of the values it uses.                                                  *)
ConvRaises(c) ==
    /\ ~AllAbsent(c)
    /\ ~IsThunderstormCode(c)
    /\ \/ (Truthy(c.cape) /\ c.cape = None)
       \/ (Truthy(c.precipitation) /\ c.precipitation = None)
       \/ (Truthy(c.wind_speed_kmh) /\ Truthy(c.wind_gusts_kmh)
             /\ (c.wind_speed_kmh = None \/ c.wind_gusts_kmh = None))
       \/ (Truthy(c.cloud_cover_low) /\ c.cloud_cover_low = None)
       \/ (Truthy(c.lifted_index) /\ c.lifted_index = None)

_detect_convective_risk(c) ==
    IF AllAbsent(c)
    THEN [has_convective_risk |-> FALSE, risk_level |-> "NULO", indicators |-> <<>>,
          summary |-> "INSUFFICIENT_DATA"]
    ELSE IF IsThunderstormCode(c)
    THEN [has_convective_risk |-> TRUE, risk_level |-> "CRITICO",
          indicators |-> <<"TS_CODE">>, summary |-> "CRITICO_CODE"]
    ELSE LET ind == ConvIndicators(c)
         IN  IF ind.weight2 >= 6
             THEN [has_convective_risk |-> TRUE, risk_level |-> "CRITICO",
                   indicators |-> ind.tags, summary |-> "CRITICO"]
             ELSE IF ind.weight2 >= 5
             THEN [has_convective_risk |-> TRUE, risk_level |-> "ALTO",
                   indicators |-> ind.tags, summary |-> "ALTO"]
             ELSE IF ind.weight2 >= 3
             THEN [has_convective_risk |-> TRUE, risk_level |-> "MODERADO",
                   indicators |-> ind.tags, summary |-> "MODERADO"]
             ELSE IF ind.tags # <<>>
             THEN [has_convective_risk |-> FALSE, risk_level |-> "BAJO",
                   indicators |-> ind.tags, summary |-> "BAJO"]
             ELSE [has_convective_risk |-> FALSE, risk_level |-> "NULO",
                   indicators |-> <<>>, summary |-> "NULO"]

ConvInputs ==
    [cape : {None, Some(0), Some(300), Some(600)},
     precipitation : {None, Some(0), Some(10)},
     wind_speed_kmh : {None, Some(0), Some(100)},
     wind_gusts_kmh : {None, Some(0), Some(200), Some(300)},
     cloud_cover_low : {None, Some(0), Some(60), Some(80)},
     weather_code : {None, Some(0), Some(3), Some(95), Some(96), Some(99)},
     lifted_index : {None, Some(0), Some(-40), Some(-70)}]

InitConv ==
    /\ pc = "conv_call"
    /\ conv_in \in {Some(c) : c \in ConvInputs}
    /\ conv_risk = None
    /\ escaped = {}
    /\ ReportIdle /\ FogIdle /\ RunwayIdle /\ AlertIdle /\ CascadeIdle /\ CacheIdle
    /\ PayloadIdle

DetectConvectiveRisk ==
    /\ pc = "conv_call"
    /\ IF ConvRaises(Val(conv_in))
       THEN /\ escaped' = escaped \cup {"_detect_convective_risk"}
            /\ UNCHANGED conv_risk
       ELSE /\ conv_risk' = Some(_detect_convective_risk(Val(conv_in)))
            /\ UNCHANGED escaped
    /\ pc' = "conv_done"
    /\ UNCHANGED <<conv_in, reportVars, fogVars, runwayVars, alertVars, cascadeVars, cacheVars,
                   payloadVars>>

NextConv == DetectConvectiveRisk

SpecConv == InitConv /\ [][NextConv]_vars

----------------------------------------------------------------------------
(* Runway analysis.  The repository holds the runway headings (config.py)  *)
(* and asks for the head- and crosswind of both runway ends in its report; *)
(* the computation itself is defined by the design document, section 4.4.  *)

heading_10 == 100

heading_28 == 280

(* 1000 * cos of 0, 10, ..., 90 degrees.                                   *)
CosTable == <<1000, 985, 940, 866, 766, 643, 500, 342, 174, 0>>

(* 1000 * cos(angle) for a multiple of 10 degrees in [-180, 180].          *)
Cos1000(angle) ==
    IF Abs(angle) <= 90 THEN CosTable[(Abs(angle) \div 10) + 1]
    ELSE -CosTable[((180 - Abs(angle)) \div 10) + 1]

(* 1000 * |sin(angle)| = 1000 * cos(90 - |angle|).                         *)
AbsSin1000(angle) == Cos1000(90 - Abs(angle))

normalize_angle_delta(wind_dir, runway_heading) ==
    ((wind_dir - runway_heading + 180) % 360) - 180

(* Components for one runway end, the speed in tenths of a knot.           *)
RunwayComponents(wind_dir, speed, heading) ==
    LET angle == normalize_angle_delta(wind_dir, heading)
    IN  [heading   |-> heading,
         headwind  |-> speed * Cos1000(angle),
         crosswind |-> speed * AbsSin1000(angle)]

(* The recommendation with ties given to the higher heading.               *)
resolveHigherOnTie(wind_dir, speed, a, b) ==
    LET ca == RunwayComponents(wind_dir, speed, a)
        cb == RunwayComponents(wind_dir, speed, b)
    IN  [ends |-> <<ca, cb>>,
         recommended |-> IF ca.headwind > cb.headwind THEN a
                         ELSE IF cb.headwind > ca.headwind THEN b
                         ELSE Max(a, b)]

resolve(wind_dir, speed, a, b) ==
    LET ca == RunwayComponents(wind_dir, speed, a)
        cb == RunwayComponents(wind_dir, speed, b)
    IN  [ends |-> <<ca, cb>>,
         recommended |-> IF ca.headwind > cb.headwind THEN a
                         ELSE IF cb.headwind > ca.headwind THEN b
                         ELSE Min(a, b)]

(* Largest wind direction of the model, in tens of degrees.                *)
MaxWindDir10 == 35

WindDirs == {10 * k : k \in 0..MaxWindDir10}

(* Wind speeds in tenths of a knot: calm, 5 kt and the 18.3 kt scenario.   *)
WindSpeeds == {0, 50, 183}

HeadingPairs == {<<heading_10, heading_28>>, <<heading_28, heading_10>>, <<0, 180>>}

RunwayInputs ==
    {[wind_dir |-> d, speed |-> v, a |-> hp[1], b |-> hp[2]] :
        d \in WindDirs, v \in WindSpeeds, hp \in HeadingPairs}

InitRunway ==
    /\ pc = "runway_call"
    /\ runway_in \in {Some(r) : r \in RunwayInputs}
    /\ runway_rec = None
    /\ escaped = {}
    /\ ReportIdle /\ FogIdle /\ ConvIdle /\ AlertIdle /\ CascadeIdle /\ CacheIdle
    /\ PayloadIdle

Resolve ==
    /\ pc = "runway_call"
    /\ runway_rec' = Some(resolve(Val(runway_in).wind_dir, Val(runway_in).speed,
                                  Val(runway_in).a, Val(runway_in).b))
    /\ pc' = "runway_done"
    /\ UNCHANGED <<runway_in, escaped, reportVars, fogVars, convVars, alertVars, cascadeVars, cacheVars,
                   payloadVars>>

NextRunway == Resolve

SpecRunway == InitRunway /\ [][NextRunway]_vars

----------------------------------------------------------------------------
(* telegram_monitor.send_alert called from several threads.  A step is one *)
(* statement of the function; the interpreter may switch threads between   *)
(* any two statements.                                                     *)

_MIN_INTERVAL == 1800

(* Largest number of calls of send_alert, all threads together.            *)
MaxCalls == 3

(* Largest number of clock ticks; a tick is half of the interval.          *)
MaxTicks == 2

StartTime == 2 * _MIN_INTERVAL

TickLength == _MIN_INTERVAL \div 2

InitAlert ==
    /\ pc = "alerts"
    /\ clock = StartTime
    /\ last_alert = [s \in Sources |-> None]
    /\ alert_pc = [t \in Threads |-> "idle"]
    /\ alert_source = [t \in Threads |-> "openmeteo"]
    /\ alert_now = [t \in Threads |-> 0]
    /\ alert_calls = [t \in Threads |-> 0]
    /\ alert_ret = [t \in Threads |-> None]
    /\ posted = <<>>
    /\ escaped = {}
    /\ ReportIdle /\ FogIdle /\ ConvIdle /\ RunwayIdle /\ CascadeIdle /\ CacheIdle
    /\ PayloadIdle

alertRest == <<pc, escaped, reportVars, fogVars, convVars, runwayVars, cascadeVars, cacheVars,
                   payloadVars>>

CallsStarted == alert_calls["request"] + alert_calls["background"]

(* time.time() moves on.                                                   *)
Tick ==
    /\ pc = "alerts"
    /\ clock < StartTime + MaxTicks * TickLength
    /\ clock' = clock + TickLength
    /\ UNCHANGED <<last_alert, alert_pc, alert_source, alert_now, alert_calls,
                   alert_ret, posted, alertRest>>

(* A thread enters send_alert with a configured token and chat id and      *)
(* executes now = time.time().                                             *)
ReadClock(t, source) ==
    /\ pc = "alerts"
    /\ alert_pc[t] = "idle"
    /\ CallsStarted < MaxCalls
    /\ alert_calls' = [alert_calls EXCEPT ![t] = @ + 1]
    /\ alert_source' = [alert_source EXCEPT ![t] = source]
    /\ alert_now' = [alert_now EXCEPT ![t] = clock]
    /\ alert_ret' = [alert_ret EXCEPT ![t] = None]
    /\ alert_pc' = [alert_pc EXCEPT ![t] = "check"]
    /\ UNCHANGED <<clock, last_alert, posted, alertRest>>

(* _last_alert.get(source, 0)                                              *)
LastAlertOf(source) == IF last_alert[source] = None THEN 0 ELSE Val(last_alert[source])

(* if now - _last_alert.get(source, 0) < _MIN_INTERVAL: return False       *)
CheckInterval(t) ==
    /\ pc = "alerts"
    /\ alert_pc[t] = "check"
    /\ IF alert_now[t] - LastAlertOf(alert_source[t]) < _MIN_INTERVAL
       THEN /\ alert_ret' = [alert_ret EXCEPT ![t] = Some(FALSE)]
            /\ alert_pc' = [alert_pc EXCEPT ![t] = "idle"]
       ELSE /\ alert_pc' = [alert_pc EXCEPT ![t] = "store"]
            /\ UNCHANGED alert_ret
    /\ UNCHANGED <<clock, last_alert, alert_source, alert_now, alert_calls,
                   posted, alertRest>>

(* _last_alert[source] = now                                               *)
StoreLast(t) ==
    /\ pc = "alerts"
    /\ alert_pc[t] = "store"
    /\ last_alert' = [last_alert EXCEPT ![alert_source[t]] = Some(alert_now[t])]
    /\ alert_pc' = [alert_pc EXCEPT ![t] = "post"]
    /\ UNCHANGED <<clock, alert_source, alert_now, alert_calls, alert_ret,
                   posted, alertRest>>

(* requests.post(...): the message is posted and the call returns True on  *)
(* status 200; on another status or a failed request it returns False.     *)
Post(t) ==
    /\ pc = "alerts"
    /\ alert_pc[t] = "post"
    /\ \E delivered \in BOOLEAN :
          /\ posted' = IF delivered
                       THEN Append(posted, [source |-> alert_source[t],
                                            now |-> alert_now[t]])
                       ELSE posted
          /\ alert_ret' = [alert_ret EXCEPT ![t] = Some(delivered)]
    /\ alert_pc' = [alert_pc EXCEPT ![t] = "idle"]
    /\ UNCHANGED <<clock, last_alert, alert_source, alert_now, alert_calls,
                   alertRest>>

NextAlert ==
    \/ Tick
    \/ \E t \in Threads, source \in Sources : ReadClock(t, source)
    \/ \E t \in Threads : CheckInterval(t)
    \/ \E t \in Threads : StoreLast(t)
    \/ \E t \in Threads : Post(t)

SpecAlert == InitAlert /\ [][NextAlert]_vars

----------------------------------------------------------------------------
(* web_app.get_report_payload and _background_regenerate_cache.  The body  *)
(* of "with _CACHE_LOCK" is one step: nothing else reads or writes _CACHE  *)
(* outside that lock.  _generate_report_payload is a callee here, analysed *)
(* for both ways a call can end: it returns the payload of the Windy model *)
(* it was given (its return statement), or an exception leaves it (see     *)
(* CallRaises for the one raised by its call of generate_metar_lemr).      *)

SUPPORTED_WINDY_MODELS == <<"gfs", "iconEu", "arome">>

(* config.WINDY_MODEL, the default of the environment variable.            *)
WINDY_MODEL == "gfs"

(* str.lower() on the model names the callers send.                        *)
LowerCase(value) ==
    CASE value = "ICONEU" -> "iconeu"
      [] value = "iconEu" -> "iconeu"
      [] OTHER -> value

_sanitize_windy_model(value) ==
    IF value = None \/ Val(value) = "" THEN WINDY_MODEL
    ELSE LET matches == {i \in 1..Len(SUPPORTED_WINDY_MODELS) :
                           LowerCase(Val(value)) = LowerCase(SUPPORTED_WINDY_MODELS[i])}
         IN  IF matches # {} THEN SUPPORTED_WINDY_MODELS[SetMin(matches)]
             ELSE WINDY_MODEL

(* Values of the windy_model argument a request can carry.                 *)
RequestedModels == {None, Some("gfs"), Some("ICONEU"), Some("ecmwf")}

(* Largest number of calls of get_report_payload, all callers together.    *)
MaxRequests == 3

(* Largest number of changes of the update cycle seen by the cache.        *)
MaxCacheCycles == 1

(* f"{cycle_id}|{selected_model}"                                          *)
CacheKey(cycle_id, selected_model) == <<cycle_id, selected_model>>

(* The payload _generate_report_payload returns for a Windy model; the     *)
(* cycle in which it was generated stands for the rest of its content.     *)
PayloadOf(windy_model, cycle_id) == [windy |-> windy_model, made_in |-> cycle_id]

InitCache ==
    /\ pc = "cache"
    /\ escaped = {}
    /\ CacheIdle
    /\ ReportIdle /\ FogIdle /\ ConvIdle /\ RunwayIdle /\ AlertIdle /\ CascadeIdle
    /\ PayloadIdle

cacheRest == <<pc, reportVars, fogVars, convVars, runwayVars, alertVars, cascadeVars,
               payloadVars>>

(* The wall clock enters the next update slot.                             *)
CacheCycleChange ==
    /\ pc = "cache"
    /\ now_cycle < MaxCacheCycles
    /\ now_cycle' = now_cycle + 1
    /\ UNCHANGED <<cache, req_pc, req_args, req_ret, req_started, regens, escaped,
                   cacheRest>>

(* The first four statements of get_report_payload.                        *)
EnterRequest(t, force, windy_model) ==
    /\ pc = "cache"
    /\ req_pc[t] = "idle"
    /\ req_started < MaxRequests
    /\ t = "warmer" => (~force /\ windy_model = Some(WINDY_MODEL))
    /\ req_started' = req_started + 1
    /\ LET selected_model == _sanitize_windy_model(windy_model)
       IN  req_args' = [req_args EXCEPT ![t] =
               Some([force |-> force, windy_model |-> windy_model,
                     now_local |-> now_cycle,
                     selected_model |-> selected_model,
                     cache_key |-> CacheKey(now_cycle, selected_model)])]
    /\ req_ret' = [req_ret EXCEPT ![t] = None]
    /\ req_pc' = [req_pc EXCEPT ![t] = "lock"]
    /\ UNCHANGED <<now_cycle, cache, regens, escaped, cacheRest>>

(* The body of "with _CACHE_LOCK" in get_report_payload.                   *)
RunLocked(t) ==
    /\ pc = "cache"
    /\ req_pc[t] = "lock"
    /\ LET a == Val(req_args[t])
       IN  IF ~a.force /\ cache.payload # None /\ cache.cache_key = Some(a.cache_key)
           THEN /\ req_ret' = [req_ret EXCEPT ![t] =
                        Some([seen |-> cache, raised |-> FALSE, payload |-> cache.payload,
                              started |-> 0, after |-> cache])]
                /\ UNCHANGED <<cache, regens, escaped>>
           ELSE IF ~a.force /\ cache.payload # None /\ cache.cache_key # Some(a.cache_key)
           THEN /\ regens' = Append(regens, [cache_key |-> a.cache_key,
                                             windy_model |-> a.selected_model,
                                             pc |-> "generate", payload |-> None,
                                             generated_at |-> None, after |-> None])
                /\ req_ret' = [req_ret EXCEPT ![t] =
                        Some([seen |-> cache, raised |-> FALSE, payload |-> cache.payload,
                              started |-> 1, after |-> cache])]
                /\ UNCHANGED <<cache, escaped>>
           ELSE \E returns \in BOOLEAN :
                   IF returns
                   THEN /\ cache' = [cache_key |-> Some(a.cache_key),
                                     generated_at |-> Some(a.now_local),
                                     payload |-> Some(PayloadOf(a.selected_model, now_cycle))]
                        /\ req_ret' = [req_ret EXCEPT ![t] =
                                Some([seen |-> cache, raised |-> FALSE,
                                      payload |-> cache'.payload, started |-> 0,
                                      after |-> cache'])]
                        /\ UNCHANGED <<regens, escaped>>
                   ELSE /\ req_ret' = [req_ret EXCEPT ![t] =
                                Some([seen |-> cache, raised |-> TRUE, payload |-> None,
                                      started |-> 0, after |-> cache])]
                        /\ escaped' = escaped \cup {"get_report_payload"}
                        /\ UNCHANGED <<cache, regens>>
    /\ req_pc' = [req_pc EXCEPT ![t] = "idle"]
    /\ UNCHANGED <<now_cycle, req_args, req_started, cacheRest>>

(* _background_regenerate_cache up to the lock: now_local is read and      *)
(* _generate_report_payload is called; its exception is caught and         *)
(* reported.                                                               *)
RegenGenerate(i) ==
    /\ pc = "cache"
    /\ i \in 1..Len(regens)
    /\ regens[i].pc = "generate"
    /\ \E returns \in BOOLEAN :
          regens' = [regens EXCEPT ![i] =
              IF returns
              THEN [regens[i] EXCEPT
                       !.pc = "store", !.generated_at = Some(now_cycle),
                       !.payload = Some(PayloadOf(regens[i].windy_model, now_cycle))]
              ELSE [regens[i] EXCEPT !.pc = "failed", !.generated_at = Some(now_cycle)]]
    /\ UNCHANGED <<now_cycle, cache, req_pc, req_args, req_ret, req_started, escaped,
                   cacheRest>>

(* The body of "with _CACHE_LOCK" in _background_regenerate_cache.         *)
RegenStore(i) ==
    /\ pc = "cache"
    /\ i \in 1..Len(regens)
    /\ regens[i].pc = "store"
    /\ cache' = [cache_key |-> Some(regens[i].cache_key),
                 generated_at |-> regens[i].generated_at,
                 payload |-> regens[i].payload]
    /\ regens' = [regens EXCEPT ![i] =
                     [regens[i] EXCEPT !.pc = "stored", !.after = Some(cache')]]
    /\ UNCHANGED <<now_cycle, req_pc, req_args, req_ret, req_started, escaped, cacheRest>>

NextCache ==
    \/ CacheCycleChange
    \/ \E t \in Callers, force \in BOOLEAN, windy_model \in RequestedModels :
          EnterRequest(t, force, windy_model)
    \/ \E t \in Callers : RunLocked(t)
    \/ \E i \in 1..Len(regens) : RegenGenerate(i)
    \/ \E i \in 1..Len(regens) : RegenStore(i)

SpecCache == InitCache /\ [][NextCache]_vars

----------------------------------------------------------------------------
(* web_app._generate_report_payload, from its first statement to the       *)
(* synthetic LEMR report; the sections built after it (Windy, AEMET, AI)   *)
(* are summed up in the payload by what they were given.                   *)

(* The parameters of generate_metar_lemr.                                  *)
GeneratorParameters ==
    {"current_weather", "icao", "elevation_m", "visibility_km", "dewpoint_c",
     "cloud_cover_low"}

(* The keywords of the call of generate_metar_lemr in the report.          *)
CallKeywords == {"icao", "elevation_m", "cloud_layers", "visibility_km", "dewpoint_c"}

(* A call with a keyword that is not a parameter raises TypeError.         *)
CallRaises == ~(CallKeywords \subseteq GeneratorParameters)

(* current = {} : every field absent.                                      *)
EmptyCurrent ==
    [temperature |-> None, humidity |-> None, wind_speed |-> None,
     wind_direction |-> None, wind_gusts |-> None, pressure |-> None,
     weather_code |-> 0, time |-> None, visibility_km |-> None,
     dewpoint_c |-> None, cloud_cover_low |-> None]

(* The current conditions with the visibility and dew point of the first   *)
(* hourly sample; the call passes no cloud_cover_low.                      *)
CurrentOf(data) ==
    IF data = None THEN EmptyCurrent
    ELSE [Val(data) EXCEPT !.cloud_cover_low = None]

WeatherReplies == {None} \cup {Some(s) : s \in MissingFamily \cup CalmFamily}

InitPayload ==
    /\ pc = "payload_call"
    /\ leas_obs \in {NoObservation, ShortReply,
                      [kind |-> "obs", wind |-> <<"2", "7", "0", "1", "0", "K", "T">>,
                       vis |-> Some(9999), layers |-> <<>>]}
    /\ weather_data \in WeatherReplies
    /\ report_payload = None
    /\ metar_leas = None
    /\ sample = BaseSample /\ now_utc = Stamp0
    /\ generated = None /\ metar_lemr = None
    /\ flight_cat_leas = None /\ flight_cat_lemr = None
    /\ regenerated = None /\ escaped = {}
    /\ FogIdle /\ ConvIdle /\ RunwayIdle /\ AlertIdle /\ CascadeIdle /\ CacheIdle

GenerateReportPayload ==
    /\ pc = "payload_call"
    /\ metar_leas' = get_metar(leas_obs)
    /\ IF CallRaises
       THEN /\ escaped' = escaped \cup {"_generate_report_payload"}
            /\ UNCHANGED <<generated, metar_lemr, report_payload>>
       ELSE /\ generated' = generate_metar_lemr(CurrentOf(weather_data), now_utc)
            /\ metar_lemr' = IF generated' # None THEN Val(generated') ELSE NOT_AVAILABLE
            /\ report_payload' =
                  Some([metar_leas |-> metar_leas', metar_lemr |-> metar_lemr',
                        current |-> CurrentOf(weather_data),
                        has_forecast |-> weather_data # None])
            /\ UNCHANGED escaped
    /\ pc' = "payload_done"
    /\ UNCHANGED <<leas_obs, sample, now_utc, flight_cat_leas, flight_cat_lemr,
                   regenerated, weather_data, fogVars, convVars, runwayVars,
                   alertVars, cascadeVars, cacheVars>>

NextPayload == GenerateReportPayload

SpecPayload == InitPayload /\ [][NextPayload]_vars

----------------------------------------------------------------------------
(* ai_service._create_chat_completion_with_fallback called from several    *)
(* threads (report regenerations run in threads of their own).  A step is  *)
(* the lock test, the call of the model, or the locking of the model; the  *)
(* alert sent on a rate limit is analysed with send_alert above.           *)

(* Largest number of invocations of the cascade, all threads together.     *)
MaxInvocations == 2

(* Largest number of changes of the update cycle.                          *)
MaxCycleChanges == 1

(* What a call of a model ends with: a response, or an exception of the    *)
(* kind the if/elif chain of the handler gives it.                         *)
CallOutcomes == {"ok", "rate_limit", "context_length", "timeout", "other"}

InitCascade ==
    /\ pc = "cascade"
    /\ escaped = {}
    /\ CascadeIdle /\ CacheIdle
    /\ PayloadIdle
    /\ ReportIdle /\ FogIdle /\ ConvIdle /\ RunwayIdle /\ AlertIdle

cascadeRest == <<pc, escaped, reportVars, fogVars, convVars, runwayVars, alertVars,
                 cacheVars, payloadVars>>

(* The wall clock enters the next update slot.                             *)
CycleChange ==
    /\ pc = "cascade"
    /\ cycle < MaxCycleChanges
    /\ cycle' = cycle + 1
    /\ UNCHANGED <<forced_fallback, casc_pc, casc_idx, casc_last, casc_ret,
                   casc_started, events, cascadeRest>>

(* A thread enters _create_chat_completion_with_fallback.                  *)
StartCascade(t) ==
    /\ pc = "cascade"
    /\ casc_pc[t] = "idle"
    /\ casc_started < MaxInvocations
    /\ casc_started' = casc_started + 1
    /\ casc_pc' = [casc_pc EXCEPT ![t] = "check"]
    /\ casc_idx' = [casc_idx EXCEPT ![t] = 1]
    /\ casc_last' = [casc_last EXCEPT ![t] = None]
    /\ casc_ret' = [casc_ret EXCEPT ![t] = None]
    /\ UNCHANGED <<cycle, forced_fallback, events, cascadeRest>>

(* _is_primary_locked_for_cycle(provider, model)                           *)
_is_primary_locked_for_cycle(model) == forced_fallback[model] = Some(cycle)

(* The head of the loop: the cascade is exhausted and the last exception   *)
(* (or a new one) is raised, or the model is skipped because it is locked, *)
(* or the thread goes on to call it.                                       *)
CheckLocked(t) ==
    /\ pc = "cascade"
    /\ casc_pc[t] = "check"
    /\ IF casc_idx[t] > Len(AI_MODEL_CASCADE)
       THEN /\ casc_ret' = [casc_ret EXCEPT ![t] =
                    Some([raised |-> TRUE,
                          what |-> IF casc_last[t] # None THEN Val(casc_last[t])
                                   ELSE "no_models"])]
            /\ casc_pc' = [casc_pc EXCEPT ![t] = "idle"]
            /\ UNCHANGED <<casc_idx, events>>
       ELSE IF _is_primary_locked_for_cycle(AI_MODEL_CASCADE[casc_idx[t]])
       THEN /\ events' = Append(events, [thread |-> t, cycle |-> cycle,
                                         model |-> AI_MODEL_CASCADE[casc_idx[t]],
                                         what |-> "skipped"])
            /\ casc_idx' = [casc_idx EXCEPT ![t] = @ + 1]
            /\ UNCHANGED <<casc_pc, casc_ret>>
       ELSE /\ casc_pc' = [casc_pc EXCEPT ![t] = "call"]
            /\ UNCHANGED <<casc_idx, casc_ret, events>>
    /\ UNCHANGED <<cycle, forced_fallback, casc_last, casc_started, cascadeRest>>

(* client.chat.completions.create(model=model_name, ...) and the handler   *)
(* of its exception, up to the classification of the error.                *)
CallModel(t) ==
    /\ pc = "cascade"
    /\ casc_pc[t] = "call"
    /\ \E outcome \in CallOutcomes :
          /\ events' = Append(events, [thread |-> t, cycle |-> cycle,
                                       model |-> AI_MODEL_CASCADE[casc_idx[t]],
                                       what |-> outcome])
          /\ IF outcome = "ok"
             THEN /\ casc_ret' = [casc_ret EXCEPT ![t] =
                          Some([raised |-> FALSE,
                                what |-> AI_MODEL_CASCADE[casc_idx[t]]])]
                  /\ casc_pc' = [casc_pc EXCEPT ![t] = "idle"]
                  /\ UNCHANGED <<casc_idx, casc_last>>
             ELSE /\ casc_last' = [casc_last EXCEPT ![t] = Some(outcome)]
                  /\ IF outcome = "rate_limit"
                     THEN /\ casc_pc' = [casc_pc EXCEPT ![t] = "lock"]
                          /\ UNCHANGED casc_idx
                     ELSE /\ casc_pc' = [casc_pc EXCEPT ![t] = "check"]
                          /\ casc_idx' = [casc_idx EXCEPT ![t] = @ + 1]
                  /\ UNCHANGED casc_ret
    /\ UNCHANGED <<cycle, forced_fallback, casc_started, cascadeRest>>

(* _lock_primary_for_cycle(provider, model_name)                           *)
LockModel(t) ==
    /\ pc = "cascade"
    /\ casc_pc[t] = "lock"
    /\ forced_fallback' =
          [forced_fallback EXCEPT ![AI_MODEL_CASCADE[casc_idx[t]]] = Some(cycle)]
    /\ casc_pc' = [casc_pc EXCEPT ![t] = "check"]
    /\ casc_idx' = [casc_idx EXCEPT ![t] = @ + 1]
    /\ UNCHANGED <<cycle, casc_last, casc_ret, casc_started, events, cascadeRest>>

NextCascade ==
    \/ CycleChange
    \/ \E t \in Threads : StartCascade(t)
    \/ \E t \in Threads : CheckLocked(t)
    \/ \E t \in Threads : CallModel(t)
    \/ \E t \in Threads : LockModel(t)

SpecCascade == InitCascade /\ [][NextCascade]_vars

----------------------------------------------------------------------------
(* The four components called on every combination of present and absent   *)
(* optional fields.                                                        *)

(* Every field of the sample present or absent; an absent weather code is  *)
(* the default 0 of current_weather.get("weather_code", 0).                *)
OptionalSamples ==
    {[temperature |-> t, humidity |-> h, wind_speed |-> ws, wind_direction |-> wd,
      wind_gusts |-> g, pressure |-> p, weather_code |-> w, time |-> tm,
      visibility_km |-> v, dewpoint_c |-> dp, cloud_cover_low |-> c] :
        t \in {None, Some(10000)}, h \in {None, Some(93)}, ws \in {None, Some(200)},
        wd \in {None, Some(270)}, g \in {None, Some(400)}, p \in {None, Some(10132)},
        w \in {0, 45, 95}, tm \in {None, Some(Stamp0)}, v \in {None, Some(4000)},
        dp \in {None, Some(9500)}, c \in {None, Some(95)}}

InitOptional == InitReport({NoObservation, ShortReply}, OptionalSamples, {Stamp0})

InitTotality == InitOptional \/ InitFog \/ InitConv

NextTotality == NextReport \/ NextFog \/ NextConv

SpecTotality == InitTotality /\ [][NextTotality]_vars

----------------------------------------------------------------------------
(* Properties of the classifier and the encoder                            *)

Classified == {r \in {flight_cat_leas, flight_cat_lemr} : r # None}

(* C1: a text from which neither a ceiling nor a visibility is extracted   *)
(* is classified DESCONOCIDO, whatever its length; VFR is returned only    *)
(* when a ceiling or a visibility was extracted.                           *)
C1_UnknownWhenNothingExtracted ==
    \A r \in Classified :
        /\ (Val(r).ceiling_ft = None /\ Val(r).visibility_m = None)
              => Val(r).category = "DESCONOCIDO"
        /\ Val(r).category = "VFR"
              => (Val(r).ceiling_ft # None \/ Val(r).visibility_m # None)

(* What a LEAS observation says: the lowest BKN/OVC layer in feet and the  *)
(* visibility in metres, 9999 standing for 10000.                          *)
ObsCeiling(o) ==
    LET counted == {i \in 1..Len(o.layers) :
                       o.layers[i].tier \in {<<"B", "K", "N">>, <<"O", "V", "C">>}}
    IN  IF counted = {} THEN None
        ELSE Some(100 * SetMin({o.layers[i].height : i \in counted}))

ObsVisibility(o) == IF o.vis = Some(9999) THEN Some(10000) ELSE o.vis

Below(x, limit) == x # None /\ Val(x) < limit

AtMost(x, limit) == x # None /\ Val(x) <= limit

(* The category the decision table of the classifier contract assigns.     *)
TableCategory(c, v) ==
    CASE Below(c, 500) \/ Below(v, 1000) -> "LIFR"
      [] ~(Below(c, 500) \/ Below(v, 1000))
           /\ (Below(c, 1000) \/ Below(v, 3000)) -> "IFR"
      [] ~(Below(c, 1000) \/ Below(v, 3000))
           /\ (AtMost(c, 3000) \/ AtMost(v, 5000)) -> "MVFR"
      [] OTHER -> "VFR"

(* C2: when a ceiling (100 x the lowest BKN/OVC height, FEW/SCT never      *)
(* counted) and/or a visibility (9999 read as 10000) is extracted, the     *)
(* category is LIFR iff c < 500 or v < 1000, else IFR iff c < 1000 or      *)
(* v < 3000, else MVFR iff c <= 3000 or v <= 5000, else VFR; a value that  *)
(* is not extracted imposes no restriction.                                *)
C2_CategoryFollowsTable ==
    /\ (flight_cat_leas # None /\ leas_obs.kind = "obs"
          /\ (ObsCeiling(leas_obs) # None \/ ObsVisibility(leas_obs) # None))
         => /\ Val(flight_cat_leas).ceiling_ft = ObsCeiling(leas_obs)
            /\ Val(flight_cat_leas).visibility_m = ObsVisibility(leas_obs)
            /\ Val(flight_cat_leas).category
                 = TableCategory(ObsCeiling(leas_obs), ObsVisibility(leas_obs))
    /\ (flight_cat_lemr # None
          /\ (Val(flight_cat_lemr).ceiling_ft # None
                \/ Val(flight_cat_lemr).visibility_m # None))
         => Val(flight_cat_lemr).category
              = TableCategory(Val(flight_cat_lemr).ceiling_ft,
                              Val(flight_cat_lemr).visibility_m)

(* A LEAS report with a low FEW layer under a 3000 ft BKN/OVC ceiling and  *)
(* unlimited visibility has been classified MVFR.                          *)
C2_Witness ==
    /\ flight_cat_leas # None
    /\ leas_obs.kind = "obs"
    /\ Len(leas_obs.layers) = 2
    /\ leas_obs.layers[1] = [tier |-> <<"F", "E", "W">>, height |-> 4]
    /\ ObsCeiling(leas_obs) = Some(3000)
    /\ leas_obs.vis = Some(9999)
    /\ Val(flight_cat_leas).category = "MVFR"

(* The dew-point spread the encoder works with, in thousandths of a degree. *)
SpreadOf(s) == Val(s.temperature) - DewpointOf(s)

ExplicitFog(s) == s.weather_code \in {45, 48}

ImplicitFog(s) ==
    /\ SpreadOf(s) <= 1000
    /\ s.cloud_cover_low # None
    /\ Val(s.cloud_cover_low) > 87

(* The text holds the given token, delimited by spaces or the text ends.   *)
HasToken(text, tok) ==
    \E i \in 1..Len(text) :
        /\ i + Len(tok) - 1 <= Len(text)
        /\ SubSeq(text, i, i + Len(tok) - 1) = tok
        /\ (i = 1 \/ text[i - 1] = " ")
        /\ (i + Len(tok) > Len(text) \/ text[i + Len(tok)] = " ")

(* C3: every fog sample (weather code 45/48, or T-Td <= 1.0 with           *)
(* cloud_cover_low > 87) the encoder accepts is reported with an OVC layer *)
(* of 1 to 4 hundreds of feet and is classified LIFR, whatever visibility, *)
(* wind and pressure were supplied.                                        *)
C3_FogIsLifr ==
    (pc = "report_done" /\ generated # None
       /\ (ExplicitFog(sample) \/ ImplicitFog(sample)))
      => /\ \E h \in 1..4 : HasToken(metar_lemr, <<"O", "V", "C">> \o Fmt(h, 3))
         /\ Val(flight_cat_lemr).category = "LIFR"

(* An implicit-fog sample (no fog code, spread of 1 C, low cloud above 87) *)
(* with a supplied visibility of 4 km has been encoded and classified: the *)
(* visibility group keeps 4000 m and the report is LIFR by its ceiling.    *)
C3_Witness ==
    /\ pc = "report_done"
    /\ generated # None
    /\ ~ExplicitFog(sample)
    /\ ImplicitFog(sample)
    /\ sample.visibility_km = Some(4000)
    /\ Val(flight_cat_lemr).visibility_m = Some(4000)
    /\ Val(flight_cat_lemr).ceiling_ft = Some(400)
    /\ Val(flight_cat_lemr).category = "LIFR"

(* C4: generate_metar_lemr returns None exactly when temperature, wind     *)
(* speed, wind direction or pressure is absent, or humidity and dew point  *)
(* are both absent; a dew point without humidity is encoded.               *)
C4_MissingRequiredField ==
    pc \in {"classify_leas", "classify_lemr", "report_done"}
      => (generated = None
            <=> \/ sample.temperature = None
                \/ sample.wind_speed = None
                \/ sample.wind_direction = None
                \/ sample.pressure = None
                \/ (sample.humidity = None /\ sample.dewpoint_c = None))

CategoryRank(category) ==
    CASE category = "LIFR" -> 3
      [] category = "IFR"  -> 2
      [] category = "MVFR" -> 1
      [] category = "VFR"  -> 0

(* a <= b on extracted values, an absent value being no restriction.       *)
LeqOpt(a, b) == b = None \/ (a # None /\ Val(a) <= Val(b))

Ranked(r) == r # None /\ Val(r).category \in {"LIFR", "IFR", "MVFR", "VFR"}

AtLeastAsRestrictive(r1, r2) ==
    (LeqOpt(Val(r1).ceiling_ft, Val(r2).ceiling_ft)
       /\ LeqOpt(Val(r1).visibility_m, Val(r2).visibility_m))
      => CategoryRank(Val(r1).category) >= CategoryRank(Val(r2).category)

(* C10: for two classified reports with c1 <= c2 and v1 <= v2, the first   *)
(* category is at least as restrictive as the second in the order          *)
(* LIFR > IFR > MVFR > VFR.                                                *)
C10_Monotone ==
    (Ranked(flight_cat_leas) /\ Ranked(flight_cat_lemr))
      => /\ AtLeastAsRestrictive(flight_cat_leas, flight_cat_lemr)
         /\ AtLeastAsRestrictive(flight_cat_lemr, flight_cat_leas)

(* Two classified reports with all four values extracted, the LEMR one     *)
(* strictly lower in ceiling and visibility and strictly more restrictive. *)
C10_Witness ==
    /\ Ranked(flight_cat_leas) /\ Ranked(flight_cat_lemr)
    /\ Val(flight_cat_leas).ceiling_ft # None /\ Val(flight_cat_leas).visibility_m # None
    /\ Val(flight_cat_lemr).ceiling_ft # None /\ Val(flight_cat_lemr).visibility_m # None
    /\ Val(Val(flight_cat_lemr).ceiling_ft) < Val(Val(flight_cat_leas).ceiling_ft)
    /\ Val(Val(flight_cat_lemr).visibility_m) < Val(Val(flight_cat_leas).visibility_m)
    /\ Val(flight_cat_lemr).category = "MVFR"
    /\ Val(flight_cat_leas).category = "VFR"

(* text.split(): the tokens of a text separated by single spaces.          *)
RECURSIVE Tokens(_)
Tokens(text) ==
    IF text = <<>> THEN <<>>
    ELSE LET spaces == {i \in 1..Len(text) : text[i] = " "}
         IN  IF spaces = {} THEN <<text>>
             ELSE LET k == SetMin(spaces)
                  IN  (IF k = 1 THEN <<>> ELSE <<SubSeq(text, 1, k - 1)>>)
                        \o Tokens(SubSeq(text, k + 1, Len(text)))

(* The tokens of a report between the wind group and the temperature group. *)
BodyTokens(text) == LET t == Tokens(text) IN SubSeq(t, 6, Len(t) - 2)

Encoded == pc \in {"classify_leas", "classify_lemr", "report_done"} /\ generated # None

CAVOK == <<"C", "A", "V", "O", "K">>

(* C12: the report holds the single token CAVOK in place of the            *)
(* visibility, phenomenon and cloud groups exactly when the visibility is  *)
(* 9999, the phenomenon token is empty and the cloud group is NCD; in      *)
(* every other case the visibility group, the phenomenon token when it is  *)
(* not empty, and the cloud group are emitted separately; the calm sample  *)
(* with T = Td = 10, pressure 1013, no low cloud and no phenomenon encodes *)
(* to the wind group 00000KT followed by CAVOK.                            *)
C12_Cavok ==
    Encoded =>
       LET g     == WeatherGroups(sample)
           body  == BodyTokens(Val(generated))
           clear == g.visibility = <<"9", "9", "9", "9">> /\ g.wx = <<>>
                      /\ g.clouds = <<"N", "C", "D">>
       IN  /\ body = <<CAVOK>> <=> clear
           /\ ~clear => body = IF g.wx = <<>> THEN <<g.visibility, g.clouds>>
                                ELSE <<g.visibility, g.wx, g.clouds>>
           /\ sample \in CalmFamily
                 => /\ Tokens(Val(generated))[5] = <<"0", "0", "0", "0", "0", "K", "T">>
                    /\ Tokens(Val(generated))[6] = CAVOK

(* The calm sample has been encoded to the wind group 00000KT followed by  *)
(* CAVOK.                                                                  *)
C12_Witness ==
    /\ pc = "report_done"
    /\ sample = CalmSample
    /\ generated = Some(<<"M", "E", "T", "A", "R", " ", "L", "E", "M", "R", " ",
                          "0", "5", "1", "2", "0", "0", "Z", " ", "A", "U", "T", "O", " ",
                          "0", "0", "0", "0", "0", "K", "T", " ", "C", "A", "V", "O", "K", " ",
                          "1", "0", "/", "1", "0", " ", "Q", "1", "0", "1", "3">>)

(* The coverage tier the bands assign to a low cloud cover in [0, 100].    *)
BandTier(ccl) ==
    CASE ccl = None \/ ccl = Some(0) -> <<"N", "C", "D">>
      [] ccl # None /\ 0 < Val(ccl) /\ Val(ccl) <= 25 -> <<"F", "E", "W">>
      [] ccl # None /\ 25 < Val(ccl) /\ Val(ccl) <= 50 -> <<"S", "C", "T">>
      [] ccl # None /\ 50 < Val(ccl) /\ Val(ccl) <= 87 -> <<"B", "K", "N">>
      [] ccl # None /\ 87 < Val(ccl) /\ Val(ccl) <= 100 -> <<"O", "V", "C">>

(* The coverage tier a report shows, CAVOK standing for NCD.               *)
ReportTier(text) ==
    LET body == BodyTokens(text)
        last == body[Len(body)]
    IN  IF last = CAVOK THEN <<"N", "C", "D">> ELSE SubSeq(last, 1, 3)

(* C13: outside fog (explicit or implicit) the coverage tier of the report *)
(* is a function of cloud_cover_low alone: absent or 0 gives NCD, (0,25]   *)
(* FEW, (25,50] SCT, (50,87] BKN and (87,100] OVC.                         *)
C13_CloudTier ==
    (Encoded /\ ~ExplicitFog(sample) /\ ~ImplicitFog(sample))
      => ReportTier(Val(generated)) = BandTier(sample.cloud_cover_low)

(* A sample just above the BKN/OVC bound (88 %) with a spread of 1.5 C,    *)
(* hence outside fog, has been encoded with an OVC layer at 600 ft.        *)
C13_Witness ==
    /\ Encoded
    /\ ~ExplicitFog(sample) /\ ~ImplicitFog(sample)
    /\ sample.cloud_cover_low = Some(88)
    /\ SpreadOf(sample) = 1500
    /\ HasToken(Val(generated), <<"O", "V", "C", "0", "0", "6">>)

(* C11: encoding is deterministic: two calls of generate_metar_lemr with   *)
(* the same sample fields, station id and elevation return the identical   *)
(* report text, for every input for which a report is returned.            *)
C11_Deterministic ==
    (pc = "reencoded" /\ generated # None) => regenerated = generated

(* The visibility group of a report that is not CAVOK, and its phenomenon  *)
(* token (empty when the report has none).                                 *)
ReportVisibility(text) == BodyTokens(text)[1]

ReportPhenomenon(text) ==
    LET body == BodyTokens(text) IN IF Len(body) = 3 THEN body[2] ELSE <<>>

(* C17 as stated: with an explicit fog code (45 or 48) the encoded         *)
(* visibility is forced from the dew-point spread, 300 m when              *)
(* T-Td <= 0.5 C and 1000 m when 0.5 < T-Td <= 1.0 C, whatever             *)
(* visibility_km was supplied.                                             *)
C17_ExplicitFogBySpread ==
    (Encoded /\ ExplicitFog(sample))
      => /\ SpreadOf(sample) <= 500
               => ReportVisibility(Val(generated)) = <<"0", "3", "0", "0">>
         /\ (500 < SpreadOf(sample) /\ SpreadOf(sample) <= 1000)
               => ReportVisibility(Val(generated)) = <<"1", "0", "0", "0">>

(* C17 amended: with an explicit fog code (45 or 48) the encoded           *)
(* visibility is forced to 800 m, whatever the dew-point spread and        *)
(* whatever visibility_km was supplied.                                    *)
C17_ExplicitFogIs0800 ==
    (Encoded /\ ExplicitFog(sample))
      => ReportVisibility(Val(generated)) = <<"0", "8", "0", "0">>

(* A sample with fog code 45, a spread of 0.25 C and a supplied visibility *)
(* of 200 m has been encoded with the visibility group 0800.               *)
C17_Witness ==
    /\ Encoded
    /\ sample.weather_code = 45
    /\ SpreadOf(sample) = 250
    /\ sample.visibility_km = Some(200)
    /\ ReportVisibility(Val(generated)) = <<"0", "8", "0", "0">>
    /\ ReportPhenomenon(Val(generated)) = <<"F", "G">>

(* C18: with implicit fog (no fog code, T-Td <= 1.0 C and cloud_cover_low  *)
(* above 87) the encoded visibility is 300 m if T-Td <= 0.5 C and 1000 m   *)
(* otherwise, for every supplied visibility_km and every weather code.     *)
C18_ImplicitFogVisibility ==
    (Encoded /\ ~ExplicitFog(sample) /\ ImplicitFog(sample))
      => ReportVisibility(Val(generated))
           = IF SpreadOf(sample) <= 500 THEN <<"0", "3", "0", "0">>
             ELSE <<"1", "0", "0", "0">>

(* C19: with implicit fog and a weather code that maps to no phenomenon    *)
(* token, the phenomenon token of the report is FG, for every spread of    *)
(* the implicit-fog range and every supplied visibility.                   *)
C19_ImplicitFogToken ==
    (Encoded /\ ~ExplicitFog(sample) /\ ImplicitFog(sample)
       /\ get_weather_phenomena(sample.weather_code) = <<>>)
      => ReportPhenomenon(Val(generated)) = <<"F", "G">>

(* The cap of the reported phenomenon, in metres.                          *)
CapOf(s) == _VIS_CAP_KM(s.weather_code)

(* A length in metres at the resolution of the visibility group: the       *)
(* nearest 100 m, at least 100 m.                                          *)
ToHundreds(m) == Max(100, RoundHalfEven(m, 100) * 100)

C21_VisibilityFourDigits ==
    (Encoded /\ BodyTokens(Val(generated)) # <<CAVOK>>)
      => LET group == ReportVisibility(Val(generated))
         IN  /\ Len(group) = 4
             /\ \A i \in 1..Len(group) : IsDigit(group[i])
             /\ ParseInt(group) >= 100
             /\ ParseInt(group) <= 9999
             /\ ExtractVisibility(Val(generated)) = Some(ParseInt(group))

(* The wind group of a report.                                             *)
ReportWind(text) == Tokens(text)[5]

IsCalmGroup(g) == g = <<"0", "0", "0", "0", "0", "K", "T">>

IsVariableGroup(g) == Len(g) = 7 /\ SubSeq(g, 1, 3) = <<"V", "R", "B">>

IsDirectionalGroup(g) == Len(g) >= 7 /\ AllDigits(g, 1, 5) /\ ~IsCalmGroup(g)

GroupDirection(g) == ParseInt(SubSeq(g, 1, 3))

GroupSpeed(g) == ParseInt(SubSeq(g, 4, 5))

(* C24: the wind group is 00000KT iff the speed in knots is 0, VRBssKT iff *)
(* 0 < speed < 3 kt, and otherwise directional with the direction rounded  *)
(* to the nearest 10 degrees, a direction that rounds to 0 being written   *)
(* 360; so for a direction in [0,360) and a speed above 0 kt no group has  *)
(* direction 000 and every directional group has one of 010, ..., 360.     *)
C24_WindGroup ==
    Encoded
      => LET g   == ReportWind(Val(generated))
             kt  == kmh_to_knots(Val(sample.wind_speed))
             dir == Val(sample.wind_direction)
         IN  /\ IsCalmGroup(g) <=> kt = 0
             /\ IsVariableGroup(g) <=> (0 < kt /\ kt < 3)
             /\ IsVariableGroup(g) => g = <<"V", "R", "B">> \o Fmt(kt, 2) \o <<"K", "T">>
             /\ IsDirectionalGroup(g) <=> kt >= 3
             /\ IsDirectionalGroup(g)
                   => /\ GroupSpeed(g) = kt
                      /\ GroupDirection(g) \in {10 * k : k \in 1..36}
                      /\ Abs((GroupDirection(g) % 360) - dir) <= 5
                           \/ 360 - Abs((GroupDirection(g) % 360) - dir) <= 5
             /\ kt > 0 => SubSeq(g, 1, 3) # <<"0", "0", "0">>

(* A wind from 004 degrees at 20 km/h has been encoded as 36011KT.         *)
C24_Witness ==
    /\ Encoded
    /\ sample.wind_direction = Some(4)
    /\ sample.wind_speed = Some(200)
    /\ sample.wind_gusts = None
    /\ ReportWind(Val(generated)) = <<"3", "6", "0", "1", "1", "K", "T">>

(* C25: a directional wind group holds a gust part exactly when            *)
(* gust_kt - speed_kt >= 10, both being the rounded knot values shown in   *)
(* the group; no gust part is emitted when the difference is below 10 or   *)
(* the gust is absent.                                                     *)
C25_GustPart ==
    (Encoded /\ IsDirectionalGroup(ReportWind(Val(generated))))
      => LET g        == ReportWind(Val(generated))
             speed_kt == kmh_to_knots(Val(sample.wind_speed))
             has_gust == Len(g) = 10 /\ g[6] = "G"
         IN  /\ has_gust <=> (sample.wind_gusts # None
                                /\ kmh_to_knots(Val(sample.wind_gusts)) - speed_kt >= 10)
             /\ has_gust => ParseInt(SubSeq(g, 7, 8)) = kmh_to_knots(Val(sample.wind_gusts))

(* C14: none of generate_metar_lemr, classify_flight_category,             *)
(* _compute_fog_risk and _detect_convective_risk lets an exception escape  *)
(* for any combination of present and absent optional fields; each call    *)
(* ends by returning a value: a report or None, a category, a risk result. *)
C14_NoExceptionEscapes ==
    /\ escaped = {}
    /\ pc \in {"classify_leas", "classify_lemr", "report_done"}
          => (generated = None <=> metar_lemr = NOT_AVAILABLE)
    /\ pc = "report_done"
          => /\ flight_cat_lemr # None
             /\ Val(flight_cat_lemr).category
                   \in {"LIFR", "IFR", "MVFR", "VFR", "DESCONOCIDO"}
    /\ pc = "fog_done"
          => /\ fog_risk # None
             /\ Val(fog_risk).level
                   \in {None, Some("BAJO"), Some("MODERADO"), Some("ALTO")}
    /\ pc = "conv_done"
          => /\ conv_risk # None
             /\ Val(conv_risk).risk_level
                   \in {"NULO", "BAJO", "MODERADO", "ALTO", "CRITICO"}

(* An hour of the window with a temperature and no dew point, wind,        *)
(* precipitation probability, weather code or visibility has been          *)
(* assessed, and the assessment returned BAJO.                             *)
C14_Witness ==
    /\ pc = "fog_done"
    /\ Len(hourly_forecast) = 1
    /\ InFogWindow(hourly_forecast[1], date_str)
    /\ hourly_forecast[1].temperature # None
    /\ hourly_forecast[1].dewpoint = None
    /\ hourly_forecast[1].wind_speed = None
    /\ hourly_forecast[1].precipitation_prob = None
    /\ hourly_forecast[1].weather_code = None
    /\ hourly_forecast[1].visibility = None
    /\ fog_risk # None
    /\ Val(fog_risk).level = Some("BAJO")

----------------------------------------------------------------------------
(* Properties of the runway analysis and of the alert anti-spam            *)

(* speed x cos(normalized wind-to-heading angle), for the wind handed to   *)
(* the analysis.                                                           *)
Headwind(heading) ==
    Val(runway_in).speed
      * Cos1000(normalize_angle_delta(Val(runway_in).wind_dir, heading))

(* C15: the runway analysis recommends, of the two runway headings, the    *)
(* one with the larger headwind component, and the lower heading when the  *)
(* two headwinds are equal; for wind from 270 degrees and the headings     *)
(* 100/280 it recommends 280, where the headwind is positive and the 100   *)
(* end has a tailwind of the same magnitude.                               *)
C15_RunwayRecommendation ==
    runway_rec # None =>
       LET w     == Val(runway_in)
           rec   == Val(runway_rec).recommended
           other == IF rec = w.a THEN w.b ELSE w.a
       IN  /\ rec \in {w.a, w.b}
           /\ Headwind(rec) >= Headwind(other)
           /\ Headwind(rec) = Headwind(other) => rec = Min(w.a, w.b)
           /\ (w.wind_dir = 270 /\ {w.a, w.b} = {heading_10, heading_28} /\ w.speed > 0)
                 => /\ rec = 280
                    /\ Headwind(280) > 0
                    /\ Headwind(100) = -Headwind(280)

(* Wind from 270 degrees at 18.3 kt with the headings 100/280 has been     *)
(* analysed: 280 is recommended with a headwind of 18.0 kt.                *)
C15_Witness ==
    /\ runway_rec # None
    /\ Val(runway_in) = [wind_dir |-> 270, speed |-> 183, a |-> 100, b |-> 280]
    /\ Val(runway_rec).recommended = 280
    /\ Val(runway_rec).ends[2].headwind = 183 * 985
    /\ Val(runway_rec).ends[1].headwind = -(183 * 985)

(* C16: for each source, at most one message is posted in any interval of  *)
(* 1800 seconds, also when send_alert is called concurrently from several  *)
(* threads; a call made less than 1800 seconds after the previous accepted *)
(* call for the same source returns False without posting.                 *)
C16_AntiSpam ==
    \A i, j \in 1..Len(posted) :
       (i < j /\ posted[i].source = posted[j].source)
          => Abs(posted[j].now - posted[i].now) >= _MIN_INTERVAL

----------------------------------------------------------------------------
(* Properties of the fog assessment                                        *)

WindowHours == FogHours(hourly_forecast, date_str)

AtRisk == Risky(WindowHours)

HasExplicitFog(h) == h.weather_code \in {Some(45), Some(48)}

RainSkipped(h) == h.precipitation_prob # None /\ Val(h.precipitation_prob) > 30

(* C5: an explicit fog code (45/48) on any sample of the window gives      *)
(* level ALTO, for every combination of that sample's other fields,        *)
(* precipitation probability included.                                     *)
C5_ExplicitFogIsAlto ==
    (fog_risk # None
       /\ \E i \in 1..Len(WindowHours) : HasExplicitFog(WindowHours[i]))
      => Val(fog_risk).level = Some("ALTO")

(* C6: a window with no samples, or whose samples are all skipped by the   *)
(* precipitation filter, gives the "no assessment" result (level None).    *)
C6_NoAssessment ==
    (fog_risk # None
       /\ \A i \in 1..Len(WindowHours) : RainSkipped(WindowHours[i]))
      => Val(fog_risk).level = None

AltoCase ==
    \E i \in 1..Len(AtRisk) : AtRisk[i].confirmed \/ AtRisk[i].score >= 4

ModeradoCase ==
    /\ ~AltoCase
    /\ \E i \in 1..Len(AtRisk) : AtRisk[i].score >= 3

(* C7: the level is ALTO iff an at-risk sample is confirmed or scores 4 or *)
(* more, MODERADO iff it is not ALTO and an at-risk sample scores 3 or     *)
(* more, and BAJO otherwise whenever the window holds a sample; the sample *)
(* T=12, Td=11.5, wind 3 km/h, precipitation probability 5 at 09:00 gives  *)
(* ALTO.                                                                   *)
C7_FogLevel ==
    fog_risk # None
      => /\ Val(fog_risk).level = Some("ALTO") <=> AltoCase
         /\ Val(fog_risk).level = Some("MODERADO") <=> ModeradoCase
         /\ (WindowHours # <<>> /\ ~AltoCase /\ ~ModeradoCase)
               => Val(fog_risk).level = Some("BAJO")
         /\ hourly_forecast = <<BaseHour>> => Val(fog_risk).level = Some("ALTO")

(* The scenario sample alone in the window has been assessed: it scores 4, *)
(* unconfirmed, at 09:00, and the level is ALTO.                           *)
C7_Witness ==
    /\ fog_risk # None
    /\ hourly_forecast = <<BaseHour>>
    /\ AtRisk = <<[time |-> 9, spread |-> 5, wind |-> 30, score |-> 4,
                   confirmed |-> FALSE]>>
    /\ Val(fog_risk).level = Some("ALTO")

(* The score the rule of C22 gives a sample whose temperature and dew      *)
(* point are known; an absent wind counts as calm.                         *)
RuleScore(h) ==
    LET spread == Val(h.temperature) - Val(h.dewpoint)
        wind   == OrZero(h.wind_speed)
    IN  (IF spread <= 2000 THEN 2 ELSE IF spread <= 3000 THEN 1 ELSE 0)
        + (IF wind <= 50 THEN 2 ELSE IF wind <= 100 THEN 1 ELSE 0)
        + (IF h.visibility = None THEN 0
           ELSE IF Val(h.visibility) < 1000 THEN 2
           ELSE IF Val(h.visibility) < 5000 THEN 1 ELSE 0)

RuleKept(h) ==
    /\ ~RainSkipped(h)
    /\ ~HasExplicitFog(h)
    /\ h.temperature # None /\ h.dewpoint # None
    /\ Val(h.temperature) - Val(h.dewpoint) <= 3000
    /\ RuleScore(h) >= 2

KeptHours == {i \in 1..Len(WindowHours) : RuleKept(WindowHours[i])}

NoConfirmedFog ==
    \A i \in 1..Len(WindowHours) :
       HasExplicitFog(WindowHours[i]) => RainSkipped(WindowHours[i])

----------------------------------------------------------------------------
(* Properties of the convective assessment                                 *)

(* C8: an explicit thunderstorm code (95, 96 or 99) gives CRITICO with     *)
(* has_convective_risk true for every combination of present, absent or    *)
(* zero values of the other inputs, and the indicator scoring is not run.  *)
C8_ThunderstormIsCritico ==
    (conv_risk # None /\ Val(conv_in).weather_code \in {Some(95), Some(96), Some(99)})
      => /\ Val(conv_risk).risk_level = "CRITICO"
         /\ Val(conv_risk).has_convective_risk
         /\ Val(conv_risk).indicators = <<"TS_CODE">>

(* Code 95 with every other input absent, and with inputs that score       *)
(* nothing, has been assessed CRITICO.                                     *)
C8_Witness ==
    /\ conv_risk # None
    /\ Val(conv_in).weather_code = Some(95)
    /\ Val(conv_in).cape = None
    /\ Val(conv_in).precipitation = Some(0)
    /\ Val(conv_in).wind_speed_kmh = None
    /\ Val(conv_in).wind_gusts_kmh = None
    /\ Val(conv_in).cloud_cover_low = None
    /\ Val(conv_in).lifted_index = None
    /\ Val(conv_risk).risk_level = "CRITICO"

(* The convective weight of the contract, in halves: +1 for CAPE > 500,    *)
(* +1 for precipitation > 0, +1 for gust minus mean wind >= 8 kt, +1 for   *)
(* lifted index < -6 and +0.5 for low cloud cover > 75.                    *)
ContractWeight2(c) ==
    (IF c.cape # None /\ Val(c.cape) > 500 THEN 2 ELSE 0)
    + (IF c.precipitation # None /\ Val(c.precipitation) > 0 THEN 2 ELSE 0)
    + (IF c.wind_speed_kmh # None /\ c.wind_gusts_kmh # None
          /\ (Val(c.wind_gusts_kmh) - Val(c.wind_speed_kmh)) * 100 >= 8 * 1852
       THEN 2 ELSE 0)
    + (IF c.lifted_index # None /\ Val(c.lifted_index) < -60 THEN 2 ELSE 0)
    + (IF c.cloud_cover_low # None /\ Val(c.cloud_cover_low) > 75 THEN 1 ELSE 0)

(* C9: without a thunderstorm code the level is CRITICO iff weight >= 3,   *)
(* ALTO iff 2.5 <= weight < 3, MODERADO iff 1.5 <= weight < 2.5, BAJO iff  *)
(* weight < 1.5 with a non-empty evidence list, NULO iff the evidence list *)
(* is empty, the weight being the sum of the five indicators.              *)
C9_ConvectiveLevel ==
    (conv_risk # None
       /\ Val(conv_in).weather_code \notin {Some(95), Some(96), Some(99)})
      => LET w2    == ContractWeight2(Val(conv_in))
             level == Val(conv_risk).risk_level
             shown == Val(conv_risk).indicators # <<>>
         IN  /\ level = "CRITICO" <=> w2 >= 6
             /\ level = "ALTO" <=> w2 = 5
             /\ level = "MODERADO" <=> (w2 >= 3 /\ w2 < 5)
             /\ level = "BAJO" <=> (w2 < 3 /\ shown)
             /\ level = "NULO" <=> ~shown

(* The difference between gust and mean wind in knots is at least n.       *)
GustDiffAtLeast(c, n) ==
    (Val(c.wind_gusts_kmh) - Val(c.wind_speed_kmh)) * 100 >= n * 1852

InSeq(q, x) == \E i \in 1..Len(q) : q[i] = x

(* C23: the gust indicator adds +1 to the convective weight exactly when   *)
(* gust minus mean wind is at least 8 kt, for every mean wind >= 0, a calm *)
(* mean wind of 0 included, and adds nothing (a noted entry from 5 kt)     *)
(* when the difference is below 8 kt.                                      *)
C23_GustIndicator ==
    (conv_risk # None
       /\ Val(conv_in).weather_code \notin {Some(95), Some(96), Some(99)}
       /\ Val(conv_in).wind_speed_kmh # None
       /\ Val(conv_in).wind_gusts_kmh # None)
      => LET c == Val(conv_in)
         IN  /\ InSeq(Val(conv_risk).indicators, "GUST_RED") <=> GustDiffAtLeast(c, 8)
             /\ InSeq(Val(conv_risk).indicators, "GUST_YELLOW")
                   <=> (GustDiffAtLeast(c, 5) /\ ~GustDiffAtLeast(c, 8))
             /\ (c.cape = None /\ c.precipitation = None /\ c.cloud_cover_low = None
                   /\ c.lifted_index = Some(-70))
                   => (Val(conv_risk).risk_level = "MODERADO" <=> GustDiffAtLeast(c, 8))

----------------------------------------------------------------------------
(* Properties of the model cascade                                         *)

Calls == {i \in 1..Len(events) : events[i].what # "skipped"}

(* Model m failed with a rate-limit error in cycle c before event i.       *)
RateLimitedBefore(i, m, c) ==
    \E k \in 1..(i - 1) :
       events[k].model = m /\ events[k].cycle = c /\ events[k].what = "rate_limit"

(* C26: a model that failed with a rate-limit error during cycle c is      *)
(* locked and is not called again by any invocation while the cycle id is  *)
(* still c; it is called again once the cycle id has changed; a timeout,   *)
(* context-length or other error never locks a model; models are tried in  *)
(* cascade order and the first successful response is returned.            *)
C26_LockedForCycle ==
    /\ \A i \in Calls : ~RateLimitedBefore(i, events[i].model, events[i].cycle)
    /\ \A i \in 1..Len(events) :
          events[i].what = "skipped"
            => RateLimitedBefore(i, events[i].model, events[i].cycle)
    /\ \A m \in CascadeModels :
          forced_fallback[m] # None
            => \E k \in 1..Len(events) :
                  events[k].model = m /\ events[k].what = "rate_limit"
    /\ \A t \in Threads :
          (casc_ret[t] # None /\ ~Val(casc_ret[t]).raised)
            => \E i \in Calls :
                  /\ events[i].thread = t
                  /\ events[i].what = "ok"
                  /\ events[i].model = Val(casc_ret[t]).what
                  /\ \A j \in (i + 1)..Len(events) : events[j].thread # t

----------------------------------------------------------------------------
(* Properties of the report cache                                          *)

Answered(t) == req_ret[t] # None /\ req_args[t] # None

(* C27: with force=False a payload cached under the current cycle id and   *)
(* selected Windy model is returned without regenerating; when the cached  *)
(* key differs the previous payload is returned at once and a background   *)
(* regeneration is started which, if it succeeds, replaces the cache with  *)
(* the new payload under the new key; with an empty cache or force=True    *)
(* the payload is generated synchronously and stored.                      *)
C27_CachePolicy ==
    /\ \A t \in Callers :
          Answered(t)
            => LET a == Val(req_args[t])
                   r == Val(req_ret[t])
               IN  /\ (~a.force /\ r.seen.payload # None
                         /\ r.seen.cache_key = Some(a.cache_key))
                         => /\ ~r.raised /\ r.payload = r.seen.payload
                            /\ r.started = 0 /\ r.after = r.seen
                   /\ (~a.force /\ r.seen.payload # None
                         /\ r.seen.cache_key # Some(a.cache_key))
                         => /\ ~r.raised /\ r.payload = r.seen.payload
                            /\ r.started = 1 /\ r.after = r.seen
                   /\ (a.force \/ r.seen.payload = None)
                         => /\ ~r.raised
                            /\ r.payload # None
                            /\ Val(r.payload).windy = a.selected_model
                            /\ r.after.cache_key = Some(a.cache_key)
                            /\ r.after.payload = r.payload
                            /\ r.started = 0
    /\ \A i \in 1..Len(regens) :
          regens[i].pc = "stored"
            => /\ Val(regens[i].after).cache_key = Some(regens[i].cache_key)
               /\ Val(regens[i].after).payload = regens[i].payload
               /\ Val(regens[i].payload).windy = regens[i].windy_model

InFlight(key) == {i \in 1..Len(regens) :
                    regens[i].cache_key = key /\ regens[i].pc \in {"generate", "store"}}

----------------------------------------------------------------------------
(* Properties of the report payload                                        *)

(* C30: _generate_report_payload returns a payload and raises no exception *)
(* whichever external sources are unavailable; when the synthetic LEMR     *)
(* report cannot be generated the payload carries LEMR METAR NOT AVAILABLE *)
(* as the raw LEMR report, and when Open-Meteo returns nothing the payload *)
(* is built from empty current, daily and hourly data.                     *)
C30_PayloadAlwaysReturned ==
    pc = "payload_done"
      => /\ "_generate_report_payload" \notin escaped
         /\ report_payload # None
         /\ generate_metar_lemr(CurrentOf(weather_data), now_utc) = None
               => Val(report_payload).metar_lemr = NOT_AVAILABLE
         /\ weather_data = None
               => /\ Val(report_payload).current = EmptyCurrent
                  /\ ~Val(report_payload).has_forecast

====
